---- MODULE Spec2Model ----
(***************************************************************************)
(* Lifecycle of one container id in the container runtime: the create,     *)
(* start and delete invocations (src/src/cmd), the container init process  *)
(* cloned by create (src/src/init.rs) and the kernel objects they meet on: *)
(* the state directory with state.json and exec_fifo, the ready pipe and   *)
(* the cgroup directory.                                                   *)
(*                                                                         *)
(* All invocations are for the same container id.  The state root          *)
(* directory itself is taken to exist (setup_ctx creates it on first use); *)
(* the model tracks the paths below it.  Steps that touch only the memory  *)
(* of one process are merged with the next step that touches a shared      *)
(* object.  A read or write that fails with EINTR is retried by the code   *)
(* and leaves the state unchanged, so it is not a step of the model.       *)
(*                                                                         *)
(* The functions the lifecycle calls on its config are modelled apart,     *)
(* each family with a specification of its own over its inputs: the cgroup *)
(* paths (PathSpec), parse_mount_options (MountSpec), the keyed interface  *)
(* file codecs of cgroup/util.rs (KeyedSpec), set_cgroup_blockio and       *)
(* set_cgroup_rdma (CtlSpec), the JSON document of State (DocSpec) and the *)
(* functions of the clone and of the container process on the namespaces,  *)
(* the environment and the root filesystem (PrepSpec).                     *)
(***************************************************************************)
EXTENDS Integers, Sequences, FiniteSets, TLC

\* Number of runtime invocations (create, start, delete) of a run.
MaxOps == 3

\* Longest path, in components, of a container id or a cgroups_path.
MaxPathLen == 2

\* Longest list of mount options.
MaxOptions == 3
MaxLines == 2
\* Length of the namespace lists and of process.env.
MaxNamespaces == 2
MaxEnv == 2

\* The create, start and delete invocations; of all of them together at
\* most MaxOps begin.
Creators == 1..MaxOps
Starters == 1..MaxOps
Deleters == 1..MaxOps

VARIABLES
    hupIgnored,   \* the runtime was launched with SIGHUP ignored
    stateDir,     \* <state_root>/<id> exists
    stateJson,    \* content of <state_root>/<id>/state.json, or NoFile
    fifoPath,     \* 0, or the FIFO node linked at <state_root>/<id>/exec_fifo
    fifoBytes,    \* number of bytes written to any exec_fifo
    cgroupDir,    \* 0, or the cgroup linked at <cgroup_root>/<id>
    cpc,          \* position of each create invocation (the clone3 parent)
    cres,         \* outcome of each create invocation
    pcont,        \* the Container state `c` in the memory of the create parent
    ret,          \* the local `ret` of init_container_proc in the parent
    rdRes,        \* what the read of the ready pipe returned in the parent
    pipe,         \* content of the ready pipe of each create
    cgfd,         \* cgroup the descriptor `cgroup_file` of each create refers to
    chpc,         \* position of the container child of each create
    chExit,       \* exit code of the child, -1 while it has none
    ccont,        \* the Container state `c` in the memory of the child
    iargs,        \* the Container state of InitArgs in the memory of the child
    chBlockedOn,  \* FIFO node the child waited on in open-for-read, 0 if none
    spc,          \* position of each start invocation
    sres,         \* outcome of each start invocation
    sBlockedOn,   \* FIFO node the start waited on in open-for-write, 0 if none
    dpc,          \* position of each delete invocation
    dres,         \* outcome of each delete invocation
    cgIn,         \* cgroup root, container id and cgroups_path of the config
    cgOut,        \* the cgroup paths computed from cgIn, and which are computed
    options,      \* the options of one mount of the config
    parsed,       \* what parse_mount_options made of them
    keyed,        \* a keyed interface file: the map written, the file, the map read
    ctl,          \* the io and rdma interface files of a cgroup and a config applied to them
    stateDoc,     \* a State object and the JSON documents made of it
    prep          \* a function of the container process: its input and what it made of it

vars == <<hupIgnored, stateDir, stateJson, fifoPath, fifoBytes, cgroupDir,
          cpc, cres, pcont, ret, rdRes, pipe, cgfd,
          chpc, chExit, ccont, iargs, chBlockedOn,
          spc, sres, sBlockedOn, dpc, dres,
          cgIn, cgOut, options, parsed, keyed, ctl, stateDoc, prep>>

fsVars == <<stateDir, stateJson, fifoPath, fifoBytes, cgroupDir>>
parentVars == <<cpc, cres, pcont, ret, rdRes, cgfd>>
childVars == <<chpc, chExit, ccont, iargs, chBlockedOn>>
startVars == <<spc, sres, sBlockedOn>>
deleteVars == <<dpc, dres>>
lifecycleVars == <<hupIgnored, fsVars, parentVars, pipe, childVars, startVars, deleteVars>>
pathVars == <<cgIn, cgOut>>
mountVars == <<options, parsed>>
fileVars == <<keyed, ctl, stateDoc, prep>>
pureVars == <<pathVars, mountVars, fileVars>>

----------------------------------------------------------------------------
(* State object *)

NoFile == [status |-> "nofile", pid |-> 0]

\* State::new: status creating, pid 0.
StateNew == [status |-> "creating", pid |-> 0]

\* State::update_status
update_status(st, status) == [st EXCEPT !.status = status]

\* State::set_pid
set_pid(st, pid) == [st EXCEPT !.pid = pid]

\* Container::exists: state.json of the id is present.
exists == stateJson # NoFile

\* The pid the kernel gives the child of create i (never 0).
ChildPid(i) == i

\* The steps of init before the ready notification that can fail.
SetupSteps == {"join_namespaces", "set_rlimits", "set_iopriority", "setup_rootfs"}

----------------------------------------------------------------------------
(* Kernel objects *)

\* Processes that hold the write end of the ready pipe of create i: the
\* parent keeps rdy_pipe_writer until init_container_proc returns, the child
\* inherits every descriptor.
PipeWriters(i) ==
    (IF cpc[i] \in {"clone", "read"} THEN {"parent"} ELSE {})
    \cup (IF chpc[i] \notin {"none", "exited"} THEN {"child"} ELSE {})

\* read(2) on the ready pipe suspends: no data, and a writer is left.
ReadBlocks(i) == pipe[i] = <<>> /\ PipeWriters(i) # {}

\* Children that are members of cgroup k: born there by CLONE_INTO_CGROUP,
\* until they exit.
CgroupProcs(k) == {i \in Creators : chpc[i] \notin {"none", "exited"} /\ cgfd[i] = k}

\* The parent of child i is alive (inside create).
ParentAlive(i) == cpc[i] # "done"

\* clone3 sets exit_signal to SIG_IGN, which is 1: the kernel sends signal 1
\* (SIGHUP) to the parent when the child terminates.  Unless the runtime
\* ignores SIGHUP the default action terminates the parent.
HupKills(i) == ParentAlive(i) /\ ~hupIgnored

\* A mkfifo or create_dir that takes over a path that is taken.
NodeFreeAlways(node) == TRUE

\* mkfifo and create_dir make a new directory entry and refuse a path that
\* is taken (EEXIST): they need the path to be free.
NodeFree(node) == node = 0

\* Number of invocations that have begun.
Begun ==
    Cardinality({i \in Creators : cpc[i] # "idle"})
    + Cardinality({s \in Starters : spc[s] # "idle"})
    + Cardinality({d \in Deleters : dpc[d] # "idle"})

\* Invocation n of its command may begin: one more invocation fits, and the
\* invocations of a command are numbered in the order they begin.
MayBegin(pcs, n) == Begun < MaxOps /\ (n > 1 => pcs[n - 1] # "idle")

----------------------------------------------------------------------------
(* Cgroup paths *)

\* A path is absolute or relative and has a sequence of normal components.
EmptyPath == [abs |-> FALSE, comps |-> <<>>]

\* Sequences over S of length at most n.
SeqsUpTo(S, n) == UNION {[1..k -> S] : k \in 0..n}

PathNames == {"a", "b"}

Paths == {[abs |-> a, comps |-> c] : a \in BOOLEAN, c \in SeqsUpTo(PathNames, MaxPathLen)}

\* The cgroup root of Ctx::default, and another one.
CgroupRoots == {[abs |-> TRUE, comps |-> <<"sys", "fs", "cgroup">>],
                [abs |-> TRUE, comps |-> <<"cg">>]}

\* PathBuf::push: an absolute path replaces the buffer, a relative one is
\* appended to it.  Path::join is push on a copy.
Push(pb, p) ==
    IF p.abs THEN p ELSE [abs |-> pb.abs, comps |-> pb.comps \o p.comps]

\* Path::strip_prefix("/") of an absolute path.
StripRoot(p) == [abs |-> FALSE, comps |-> p.comps]

\* cgroup/mod.rs:91-120.  cfg is the Option: cfg.some tells Some from None.
resolve_cgroup_path(cfg, root, id) ==
    LET pb == Push(EmptyPath, root)
    IN IF cfg.some
       THEN IF cfg.path.abs
            THEN Push(pb, StripRoot(cfg.path))
            ELSE Push(pb, cfg.path)
       ELSE Push(pb, id)

\* create.rs:118: the cgroup create makes; the config is not consulted.
create_cgroup_path(cfg, root, id) == Push(root, id)

\* delete.rs:16: the cgroup delete removes.
delete_cgroup_path(root, id) == Push(root, id)

NoCgOut == [resolved |-> EmptyPath, created |-> EmptyPath, deleted |-> EmptyPath,
            done |-> {}]

\* The config of the lifecycle gives no cgroups_path.
PathIdle ==
    /\ cgIn = [root |-> [abs |-> TRUE, comps |-> <<"sys", "fs", "cgroup">>],
               id |-> [abs |-> FALSE, comps |-> <<"a">>],
               cfg |-> [some |-> FALSE, path |-> EmptyPath]]
    /\ cgOut = NoCgOut

ResolveCgroupPath ==
    /\ "resolve" \notin cgOut.done
    /\ cgOut' = [cgOut EXCEPT !.resolved = resolve_cgroup_path(cgIn.cfg, cgIn.root, cgIn.id),
                              !.done = @ \cup {"resolve"}]
    /\ UNCHANGED <<cgIn, mountVars, fileVars, lifecycleVars>>

CreateCgroupAt ==
    /\ "create" \notin cgOut.done
    /\ cgOut' = [cgOut EXCEPT !.created = create_cgroup_path(cgIn.cfg, cgIn.root, cgIn.id),
                              !.done = @ \cup {"create"}]
    /\ UNCHANGED <<cgIn, mountVars, fileVars, lifecycleVars>>

DeleteCgroupAt ==
    /\ "delete" \notin cgOut.done
    /\ cgOut' = [cgOut EXCEPT !.deleted = delete_cgroup_path(cgIn.root, cgIn.id),
                              !.done = @ \cup {"delete"}]
    /\ UNCHANGED <<cgIn, mountVars, fileVars, lifecycleVars>>

----------------------------------------------------------------------------
(* Mount options *)

\* The mount(2) flags of libc, each one bit; a flags word is modelled as the
\* set of the bits that are set in it.  MS_ASYNC is the msync(2) flag and has
\* the value of MS_RDONLY.
MS_RDONLY == 1
MS_ASYNC == 1
MS_NOSUID == 2
MS_NODEV == 4
MS_NOEXEC == 8
MS_SYNCHRONOUS == 16
MS_REMOUNT == 32
MS_DIRSYNC == 128
MS_NOATIME == 1024
MS_NODIRATIME == 2048
MS_BIND == 4096
MS_REC == 16384
MS_SILENT == 32768
MS_UNBINDABLE == 131072
MS_PRIVATE == 262144
MS_SLAVE == 524288
MS_SHARED == 1048576
MS_RELATIME == 2097152
MS_I_VERSION == 8388608
MS_STRICTATIME == 16777216
MS_LAZYTIME == 33554432

\* flags | bits and flags ^ bits on sets of bits.
BitOr(flags, bits) == flags \cup bits
BitXor(flags, bits) == (flags \ bits) \cup (bits \ flags)

\* mount.rs:89-125: the arms `flags |= ...` of the match, by option.
OrArms ==
    [o \in {"async", "bind", "defaults", "dev", "dirsync", "iversion", "lazytime",
            "noatime", "nodev", "nodiratime", "noexec", "nosuid", "private", "rbind",
            "relatime", "remount", "ro", "rprivate", "rshared", "rslave",
            "runbindable", "shared", "slave", "strictatime", "sync", "unbindable"} |->
        CASE o = "async" -> {MS_ASYNC}
          [] o = "bind" -> {MS_BIND}
          [] o = "defaults" -> {}
          [] o = "dev" -> {MS_NODEV}
          [] o = "dirsync" -> {MS_DIRSYNC}
          [] o = "iversion" -> {MS_I_VERSION}
          [] o = "lazytime" -> {MS_LAZYTIME}
          [] o = "noatime" -> {MS_NOATIME}
          [] o = "nodev" -> {MS_NODEV}
          [] o = "nodiratime" -> {MS_NODIRATIME}
          [] o = "noexec" -> {MS_NOEXEC}
          [] o = "nosuid" -> {MS_NOSUID}
          [] o = "private" -> {MS_PRIVATE}
          [] o = "rbind" -> {MS_BIND, MS_REC}
          [] o = "relatime" -> {MS_RELATIME}
          [] o = "remount" -> {MS_REMOUNT}
          [] o = "ro" -> {MS_RDONLY}
          [] o = "rprivate" -> {MS_PRIVATE}
          [] o = "rshared" -> {MS_SHARED}
          [] o = "rslave" -> {MS_SLAVE}
          [] o = "runbindable" -> {MS_UNBINDABLE}
          [] o = "shared" -> {MS_SHARED}
          [] o = "slave" -> {MS_SLAVE}
          [] o = "strictatime" -> {MS_STRICTATIME}
          [] o = "sync" -> {MS_SYNCHRONOUS}
          [] o = "unbindable" -> {MS_UNBINDABLE}]

\* mount.rs:90-123: the arms `flags ^= ...` of the match, by option.
XorArms ==
    [o \in {"atime", "diratime", "exec", "loud", "noiversion", "nolazytime",
            "norelatime", "nostrictatime", "rw", "silent", "suid"} |->
        CASE o = "atime" -> {MS_NOATIME}
          [] o = "diratime" -> {MS_NODIRATIME}
          [] o = "exec" -> {MS_NOEXEC}
          [] o = "loud" -> {MS_SILENT}
          [] o = "noiversion" -> {MS_I_VERSION}
          [] o = "nolazytime" -> {MS_LAZYTIME}
          [] o = "norelatime" -> {MS_RELATIME}
          [] o = "nostrictatime" -> {MS_STRICTATIME}
          [] o = "rw" -> {MS_RDONLY}
          [] o = "silent" -> {MS_SILENT}
          [] o = "suid" -> {MS_NOSUID}]

\* The options the match of parse_mount_options names.
KnownOptions == DOMAIN OrArms \cup DOMAIN XorArms

\* A loop that drops the options its match does not name.
parse_mount_option_drop(acc, opt) ==
    IF opt \in DOMAIN OrArms
    THEN [acc EXCEPT !.flags = BitOr(@, OrArms[opt])]
    ELSE IF opt \in DOMAIN XorArms
    THEN [acc EXCEPT !.flags = BitXor(@, XorArms[opt])]
    ELSE acc

\* mount.rs:87-127: one turn of the loop.
parse_mount_option(acc, opt) ==
    IF opt \in DOMAIN OrArms
    THEN [acc EXCEPT !.flags = BitOr(@, OrArms[opt])]
    ELSE IF opt \in DOMAIN XorArms
    THEN [acc EXCEPT !.flags = BitXor(@, XorArms[opt])]
    ELSE [acc EXCEPT !.fs_opts = Append(@, opt)]

RECURSIVE parse_from(_, _)
parse_from(opts, acc) ==
    IF opts = <<>> THEN acc
    ELSE parse_from(Tail(opts), parse_mount_option(acc, Head(opts)))

\* mount.rs:84-131, called with an empty fs_opts as setup_mounts does.
parse_mount_options(opts) == parse_from(opts, [flags |-> {}, fs_opts |-> <<>>])

\* The options lists are drawn from: every list of at most MaxOptions of a
\* few options, every single known option, and the list of the example.
OptionAlphabet == {"rw", "ro", "suid", "nosuid", "dev", "nodev", "relatime",
                   "atime", "noatime", "loud", "silent", "async", "myopt=1",
                   "size=64k"}

OptionsExample == <<"rw", "nosuid", "nodev", "relatime", "myopt=1">>

OptionLists ==
    SeqsUpTo(OptionAlphabet, MaxOptions)
    \cup {<<o>> : o \in KnownOptions}
    \cup {OptionsExample}

NotParsed == [done |-> FALSE, flags |-> {}, fs_opts |-> <<>>]

\* The config of the lifecycle has no mounts.
MountIdle ==
    /\ options = <<>>
    /\ parsed = NotParsed

ParseMountOptions ==
    /\ ~parsed.done
    /\ LET r == parse_mount_options(options)
       IN parsed' = [done |-> TRUE, flags |-> r.flags, fs_opts |-> r.fs_opts]
    /\ UNCHANGED <<options, pathVars, fileVars, lifecycleVars>>

----------------------------------------------------------------------------
(* Keyed interface files, cgroup/util.rs *)

\* The text of a file, a key or a value is a sequence of tokens: a token is
\* one of the characters " ", "=" and "\n", or a run of other characters.
\* A HashMap is a function of its keys.

\* str::split(sep): the pieces between the occurrences of sep.
RECURSIVE Split(_, _)
Split(s, sep) ==
    IF \A n \in 1..Len(s) : s[n] # sep
    THEN <<s>>
    ELSE LET n == CHOOSE n \in 1..Len(s) : s[n] = sep /\ \A j \in 1..(n - 1) : s[j] # sep
         IN <<SubSeq(s, 1, n - 1)>> \o Split(SubSeq(s, n + 1, Len(s)), sep)

\* BufRead::lines: the pieces between the newlines, without a last empty one.
Lines(s) ==
    LET p == Split(s, "\n")
    IN IF p[Len(p)] = <<>> THEN SubSeq(p, 1, Len(p) - 1) ELSE p

\* HashMap::new, HashMap::insert and the map without one key.
EmptyMap == [k \in {} |-> <<>>]
Insert(m, key, v) == [k \in DOMAIN m \cup {key} |-> IF k = key THEN v ELSE m[k]]
Without(m, key) == [k \in DOMAIN m \ {key} |-> m[k]]

\* util.rs:18-35: the map of the lines "KEY VAL" of the text.
read_flat_keyed_file(text) ==
    LET RECURSIVE from(_, _)
        from(lines, data) ==
            IF lines = <<>> THEN data
            ELSE LET parts == Split(Head(lines), " ")
                 IN from(Tail(lines),
                         IF Len(parts) = 2 THEN Insert(data, parts[1], parts[2]) ELSE data)
    IN from(Split(text, "\n"), EmptyMap)

\* A reader that takes a sub-pair without `=` as a sub-key with an empty
\* value.
read_nested_keyed_file_lenient(text) ==
    LET RECURSIVE sub_from(_, _)
        sub_from(pairs, sub_map) ==
            IF pairs = <<>> THEN sub_map
            ELSE LET pair == Split(Head(pairs), "=")
                 IN sub_from(Tail(pairs),
                             IF Len(pair) = 2 THEN Insert(sub_map, pair[1], pair[2])
                             ELSE IF Len(pair) = 1 THEN Insert(sub_map, pair[1], <<>>)
                             ELSE sub_map)
        RECURSIVE from(_, _)
        from(lines, data) ==
            IF lines = <<>> THEN data
            ELSE LET split == Split(Head(lines), " ")
                 IN from(Tail(lines), Insert(data, Head(split), sub_from(Tail(split), EmptyMap)))
    IN from(Lines(text), EmptyMap)

\* util.rs:87-114: the map of the lines "KEY SUB=VAL SUB=VAL ..." of the text.
read_nested_keyed_file(text) ==
    LET RECURSIVE sub_from(_, _)
        sub_from(pairs, sub_map) ==
            IF pairs = <<>> THEN sub_map
            ELSE LET pair == Split(Head(pairs), "=")
                 IN sub_from(Tail(pairs),
                             IF Len(pair) = 2 THEN Insert(sub_map, pair[1], pair[2]) ELSE sub_map)
        RECURSIVE from(_, _)
        from(lines, data) ==
            IF lines = <<>> THEN data
            ELSE LET split == Split(Head(lines), " ")
                 IN from(Tail(lines), Insert(data, Head(split), sub_from(Tail(split), EmptyMap)))
    IN from(Lines(text), EmptyMap)

\* util.rs:147-153: the string `s` of write_flat_keyed_file, one for every
\* order in which the HashMap can iterate.
RECURSIVE flat_keyed_text(_)
flat_keyed_text(data) ==
    IF DOMAIN data = {} THEN {<<>>}
    ELSE UNION {{k \o <<" ">> \o data[k] \o <<"\n">> \o rest :
                    rest \in flat_keyed_text(Without(data, k))} : k \in DOMAIN data}

\* util.rs:122-131: the string `s` of write_nested_keyed_file, one for every
\* order in which the HashMaps can iterate.  The `remove` takes the last
\* character of every entry, a space; nothing is put between the entries.
RECURSIVE nested_keyed_text(_)
nested_keyed_text(data) ==
    LET RECURSIVE pairs(_)
        pairs(v) ==
            IF DOMAIN v = {} THEN {<<>>}
            ELSE UNION {{sk \o <<"=">> \o v[sk] \o <<" ">> \o rest :
                            rest \in pairs(Without(v, sk))} : sk \in DOMAIN v}
        entries(k) == {SubSeq(e, 1, Len(e) - 1) : e \in {k \o <<" ">> \o p : p \in pairs(data[k])}}
    IN IF DOMAIN data = {} THEN {<<>>}
       ELSE UNION {{e \o rest : e \in entries(k), rest \in nested_keyed_text(Without(data, k))} :
                      k \in DOMAIN data}

\* An open of the file for writing that leaves its content in place.
open_keep(text) == text

\* util.rs:133-137, 155-159: OpenOptions write(true).truncate(true).open on
\* a file that exists empties it.
open_truncate(text) == <<>>

\* write_all of `s` at the start of the opened file.
write_all(text, s) == s \o SubSeq(text, Len(s) + 1, Len(text))

\* util.rs:142-161 and 117-139: the texts the file can have after the write.
write_flat_keyed_file(text, data) ==
    {write_all(open_truncate(text), s) : s \in flat_keyed_text(data)}

write_nested_keyed_file(text, data) ==
    {write_all(open_truncate(text), s) : s \in nested_keyed_text(data)}

\* The maps and files of the codec runs.  Flat maps take keys and values
\* from strings with and without a space or a newline in them.
FlatMaps ==
    LET keys == {<<>>, <<"default">>, <<"8:0">>, <<"a", " ", "b">>}
        values == {<<"100">>, <<"1", " ", "2">>, <<"7", "\n">>}
    IN UNION {[K -> values] : K \in SUBSET keys}

NestedMaps ==
    LET sub_maps == UNION {[K -> {<<"1">>, <<"2">>}] : K \in SUBSET {<<"rbps">>, <<"wbps">>}}
    IN UNION {[K -> sub_maps] : K \in SUBSET {<<"8:0">>, <<"8:16">>}}

OldTexts == {<<>>, <<"KEY20", "=", "VAL20", "\n">>,
             <<"old", " ", "1", "\n", "older", " ", "2", "\n", "oldest", " ", "3", "\n">>}

\* The lines of a nested keyed file that was not written by the runtime: a
\* key and at most two sub-pairs, among them a repeated sub-key, a pair
\* without `=` and a pair with two of them.
NestedLines ==
    LET pairs == {<<"SUB0", "=", "VAL0">>, <<"SUB1", "=", "VAL1">>, <<"SUB0", "=", "VAL9">>,
                  <<"bad">>, <<"a", "=", "b", "=", "c">>}
    IN [key : {<<"KEY0">>, <<"KEY1">>}, pairs : SeqsUpTo(pairs, 2)]

\* The text of the file that has these lines, as the data of
\* test_read_nested_keyed_file: a space before every sub-pair and a newline
\* between two lines.
TextOfLines(lines) ==
    LET RECURSIVE line_text(_)
        line_text(pairs) ==
            IF pairs = <<>> THEN <<>> ELSE <<" ">> \o Head(pairs) \o line_text(Tail(pairs))
        RECURSIVE text_from(_)
        text_from(ls) ==
            IF ls = <<>> THEN <<>>
            ELSE Head(ls).key \o line_text(Head(ls).pairs)
                 \o (IF Tail(ls) = <<>> THEN <<>> ELSE <<"\n">> \o text_from(Tail(ls)))
    IN text_from(lines)

\* No keyed file is written or read in the lifecycle.
KeyedIdle ==
    keyed = [kind |-> "none", data |-> EmptyMap, text |-> <<>>, out |-> EmptyMap, pc |-> "done"]

WriteFlatKeyedFile ==
    /\ keyed.kind = "flat" /\ keyed.pc = "write"
    /\ \E text \in write_flat_keyed_file(keyed.text, keyed.data) :
        keyed' = [keyed EXCEPT !.text = text, !.pc = "read"]
    /\ UNCHANGED <<ctl, stateDoc, prep, pathVars, mountVars, lifecycleVars>>

ReadFlatKeyedFile ==
    /\ keyed.kind = "flat" /\ keyed.pc = "read"
    /\ keyed' = [keyed EXCEPT !.out = read_flat_keyed_file(keyed.text), !.pc = "done"]
    /\ UNCHANGED <<ctl, stateDoc, prep, pathVars, mountVars, lifecycleVars>>

WriteNestedKeyedFile ==
    /\ keyed.kind = "nested" /\ keyed.pc = "write"
    /\ \E text \in write_nested_keyed_file(keyed.text, keyed.data) :
        keyed' = [keyed EXCEPT !.text = text, !.pc = "read"]
    /\ UNCHANGED <<ctl, stateDoc, prep, pathVars, mountVars, lifecycleVars>>

ReadNestedKeyedFile ==
    /\ keyed.kind \in {"nested", "lines"} /\ keyed.pc = "read"
    /\ keyed' = [keyed EXCEPT !.out = read_nested_keyed_file(keyed.text), !.pc = "done"]
    /\ UNCHANGED <<ctl, stateDoc, prep, pathVars, mountVars, lifecycleVars>>

----------------------------------------------------------------------------
(* The io and rdma controllers, cgroup/mod.rs *)

\* An Option is the set of its values: {} is None, {v} is Some(v).  An
\* Option<Vec> that is None is the empty list.

\* to_string of an integer, and format!("{}:{}", major, minor).
to_string(n) == <<ToString(n)>>
DevKey(dev) == <<ToString(dev.major) \o ":" \o ToString(dev.minor)>>

\* cgroup/mod.rs:213-227.
update_device(dev_list, subkey, file_map) ==
    LET RECURSIVE from(_, _)
        from(devs, m) ==
            IF devs = <<>> THEN m
            ELSE LET dev == Head(devs)
                     key == DevKey(dev)
                 IN from(Tail(devs),
                         IF key \in DOMAIN m
                         THEN Insert(m, key, Insert(m[key], <<"rbps">>, to_string(dev.rate)))
                         ELSE Insert(m, key, Insert(EmptyMap, <<subkey>>, to_string(dev.rate))))
    IN from(dev_list, file_map)

\* cgroup/mod.rs:171-211: the files of the cgroup after set_cgroup_blockio,
\* one for every text the writes can make.
set_cgroup_blockio(files, blockio) ==
    LET RECURSIVE weights(_, _)
        weights(devices, data) ==
            IF devices = <<>> THEN data
            ELSE LET device == Head(devices)
                 IN weights(Tail(devices),
                            IF device.weight = {} THEN data
                            ELSE Insert(data, DevKey(device),
                                        to_string(CHOOSE w \in device.weight : TRUE)))
        io_weight ==
            IF blockio.weight = {} THEN {files["io.weight"]}
            ELSE write_flat_keyed_file(files["io.weight"],
                    Insert(weights(blockio.weight_device, read_flat_keyed_file(files["io.weight"])),
                           <<"default">>, to_string(CHOOSE w \in blockio.weight : TRUE)))
        io_max ==
            update_device(blockio.throttle_write_iops_device, "wiops",
            update_device(blockio.throttle_read_iops_device, "riops",
            update_device(blockio.throttle_write_bps_device, "wbps",
            update_device(blockio.throttle_read_bps_device, "rbps",
                          read_nested_keyed_file(files["io.max"])))))
    IN {[files EXCEPT !["io.weight"] = w, !["io.max"] = m] :
           w \in io_weight, m \in write_nested_keyed_file(files["io.max"], io_max)}

\* cgroup/mod.rs:256-272: the map rdma_data at the end of the loop.
rdma_data(files, rdma) ==
    LET RECURSIVE from(_, _)
        from(keys, data) ==
            IF keys = {} THEN data
            ELSE LET key == CHOOSE k \in keys : TRUE
                     sub_map == IF key \in DOMAIN data THEN data[key] ELSE EmptyMap
                     handles == IF rdma[key].hca_handles = {} THEN sub_map
                                ELSE Insert(sub_map, <<"hca_handle">>,
                                            to_string(CHOOSE h \in rdma[key].hca_handles : TRUE))
                     objects == IF rdma[key].hca_objects = {} THEN handles
                                ELSE Insert(handles, <<"hca_object">>,
                                            to_string(CHOOSE o \in rdma[key].hca_objects : TRUE))
                 IN from(keys \ {key}, Insert(data, key, objects))
    IN from(DOMAIN rdma, read_nested_keyed_file(files["rdma.max"]))

\* cgroup/mod.rs:252-274: set_cgroup_rdma returns Ok(()) after the loop;
\* rdma_data is dropped and no file is written.
set_cgroup_rdma(files, rdma) ==
    LET dropped == rdma_data(files, rdma)
    IN files

\* The files of a cgroup before a config is applied: io.weight, io.max and
\* rdma.max exist, with some devices in them or none.
CgroupFiles ==
    {("io.weight" :> w) @@ ("io.max" :> m) @@ ("rdma.max" :> r) :
        w \in {<<"default", " ", "100", "\n">>,
               <<"default", " ", "100", "\n", "8:16", " ", "50", "\n">>},
        m \in {<<>>,
               <<"8:0", " ", "rbps", "=", "1", " ", "wiops", "=", "3", "\n">>,
               <<"8:0", " ", "rbps", "=", "1", "\n", "8:16", " ", "wbps", "=", "2", "\n">>},
        r \in {<<>>,
               <<"mlx5_0", " ", "hca_handle", "=", "2", " ", "hca_object", "=", "2000", "\n">>}}

\* The blockIO sections: every throttle list names at most one of two
\* devices.
BlockIOs ==
    LET throttles == {<<>>} \cup {<<[major |-> 8, minor |-> m, rate |-> 5]>> : m \in {0, 16}}
    IN [weight : {{}, {100}},
        weight_device : {<<>>, <<[major |-> 8, minor |-> 0, weight |-> {200}]>>,
                         <<[major |-> 8, minor |-> 16, weight |-> {}]>>},
        throttle_read_bps_device : throttles,
        throttle_write_bps_device : throttles,
        throttle_read_iops_device : throttles,
        throttle_write_iops_device : throttles]

\* The rdma sections: limits for none, one or two devices.
Rdmas ==
    UNION {[K -> [hca_handles : {{}, {3}}, hca_objects : {{}, {9}}]] :
              K \in SUBSET {<<"mlx5_0">>, <<"ocrdma1">>}}

\* No controller is configured in the lifecycle.
CtlIdle ==
    ctl = [op |-> "none", cfg |-> EmptyMap, old |-> EmptyMap, files |-> EmptyMap,
           res |-> "none", done |-> TRUE]

SetCgroupBlockio ==
    /\ ctl.op = "blockio" /\ ~ctl.done
    /\ \E files \in set_cgroup_blockio(ctl.files, ctl.cfg) :
        ctl' = [ctl EXCEPT !.files = files, !.res = "Ok", !.done = TRUE]
    /\ UNCHANGED <<keyed, stateDoc, prep, pathVars, mountVars, lifecycleVars>>

SetCgroupRdma ==
    /\ ctl.op = "rdma" /\ ~ctl.done
    /\ ctl' = [ctl EXCEPT !.files = set_cgroup_rdma(ctl.files, ctl.cfg), !.res = "Ok", !.done = TRUE]
    /\ UNCHANGED <<keyed, stateDoc, prep, pathVars, mountVars, lifecycleVars>>

\* A create_dir that takes a directory that is there, as create_dir_all.
create_dir_all(dir, made) == IF made THEN "Ok" ELSE "IO"

\* cgroup/mod.rs:52: std::fs::create_dir fails when the directory exists,
\* and when the kernel refuses to make it.
create_dir(dir, made) == IF dir.exists \/ ~made THEN "IO" ELSE "Ok"

\* cgroup/mod.rs:51-87: the directory and the result after create_cgroup,
\* one for every text the writes can make.  `made` and `opened` tell
\* whether create_dir and File::create of cgroup.procs get through, and
\* `fresh` is what the kernel puts in a directory it makes: the interface
\* files in a cgroup filesystem, nothing elsewhere.  The configs have the
\* sections blockIO, rdma and pids.
create_cgroup(dir, config, made, opened, fresh) ==
    LET start == IF dir.exists THEN dir.files ELSE fresh
        procs == Insert(start, "cgroup.procs", <<>>)
        blockio_needs(b) == {"io.max"} \cup (IF b.weight = {} THEN {} ELSE {"io.weight"})
        after_pids(files) ==
            {[res |-> "Ok", exists |-> TRUE,
              files |-> IF config.pids = {} THEN files
                        ELSE Insert(files, "pids.max", to_string(CHOOSE l \in config.pids : TRUE))]}
        after_rdma(files) ==
            IF config.rdma = {} THEN after_pids(files)
            ELSE IF "rdma.max" \notin DOMAIN files
            THEN {[res |-> "IO", exists |-> TRUE, files |-> files]}
            ELSE after_pids(set_cgroup_rdma(files, CHOOSE r \in config.rdma : TRUE))
        after_blockio(files) ==
            IF config.blockio = {} THEN after_rdma(files)
            ELSE LET b == CHOOSE b \in config.blockio : TRUE
                 IN IF ~(blockio_needs(b) \subseteq DOMAIN files)
                    THEN {[res |-> "IO", exists |-> TRUE, files |-> files]}
                    ELSE UNION {after_rdma(f) : f \in set_cgroup_blockio(files, b)}
    IN IF create_dir(dir, made) = "IO"
       THEN {[res |-> "IO", exists |-> dir.exists, files |-> dir.files]}
       ELSE IF ~opened
       THEN {[res |-> "IO", exists |-> TRUE, files |-> start]}
       ELSE after_blockio(procs)

\* The cgroup sections of the configs: a blockIO section or none, an rdma
\* section for one device or none, a pids limit or none.
CgroupConfigs ==
    [blockio : {{}} \cup {{b} : b \in {b \in BlockIOs :
                                        /\ b.throttle_write_bps_device = <<>>
                                        /\ b.throttle_read_iops_device = <<>>
                                        /\ b.throttle_write_iops_device = <<>>}},
     rdma : {{}} \cup {{r} : r \in {r \in Rdmas : DOMAIN r = {<<"mlx5_0">>}}},
     pids : {{}, {10}}]

\* The cgroup directory before create_cgroup: missing, or there with the
\* interface files and cgroup.procs, or there and empty.
CgroupDirs ==
    {[exists |-> FALSE, files |-> EmptyMap], [exists |-> TRUE, files |-> EmptyMap]}
    \cup {[exists |-> TRUE, files |-> Insert(f, "cgroup.procs", <<"42", "\n">>)] : f \in CgroupFiles}

CreateCgroupDir ==
    /\ ctl.op = "create" /\ ~ctl.done
    /\ \E made \in BOOLEAN, opened \in BOOLEAN, fresh \in {EmptyMap} \cup CgroupFiles :
        \E r \in create_cgroup(ctl.old, ctl.cfg, made, opened, fresh) :
            ctl' = [ctl EXCEPT !.files = [exists |-> r.exists, files |-> r.files],
                               !.res = r.res, !.done = TRUE]
    /\ UNCHANGED <<keyed, stateDoc, prep, pathVars, mountVars, lifecycleVars>>

----------------------------------------------------------------------------
(* state.json, state.rs *)

\* state.rs:46-56: the serde names of the variants of Status.
StatusName ==
    [creating |-> "creating", created |-> "created", running |-> "running",
     stopped |-> "stoped"]

\* serde_json::to_string of a State: the status and pid of the document.
to_json(st) == [status |-> StatusName[st.status], pid |-> st.pid]

\* The State object is new and no document was made of it.
StateDocIdle == stateDoc = [state |-> StateNew, json |-> {}]

DocUpdateStatus ==
    /\ \E status \in DOMAIN StatusName :
        stateDoc' = [stateDoc EXCEPT !.state = update_status(@, status)]
    /\ UNCHANGED <<keyed, ctl, prep, pathVars, mountVars, lifecycleVars>>

DocSetPid ==
    /\ \E i \in Creators :
        stateDoc' = [stateDoc EXCEPT !.state = set_pid(@, ChildPid(i))]
    /\ UNCHANGED <<keyed, ctl, prep, pathVars, mountVars, lifecycleVars>>

\* The document of the State as it is, kept with the State it was made of.
DocSerialize ==
    /\ stateDoc' = [stateDoc EXCEPT !.json = {[of |-> stateDoc.state, doc |-> to_json(stateDoc.state)]}]
    /\ UNCHANGED <<keyed, ctl, prep, pathVars, mountVars, lifecycleVars>>

----------------------------------------------------------------------------
(* The clone and the container process on the config: namespaces.rs, *)
(* process.rs, rootfs.rs                                             *)

\* The bits of the clone flags, as libc has them.
CLONE_NEWTIME == 128
CLONE_NEWNS == 131072
CLONE_NEWCGROUP == 33554432
CLONE_NEWUTS == 67108864
CLONE_NEWIPC == 134217728
CLONE_NEWUSER == 268435456
CLONE_NEWPID == 536870912
CLONE_NEWNET == 1073741824

\* namespaces.rs:20-30: the match on the type of a namespace.
namespace_arm(flags, typ) ==
    CASE typ = "pid" -> BitOr(flags, {CLONE_NEWPID})
      [] typ = "network" -> BitOr(flags, {CLONE_NEWNET})
      [] typ = "mount" -> BitOr(flags, {CLONE_NEWNS})
      [] typ = "ipc" -> BitOr(flags, {CLONE_NEWIPC})
      [] typ = "uts" -> BitOr(flags, {CLONE_NEWUTS})
      [] typ = "user" -> BitOr(flags, {CLONE_NEWUSER})
      [] typ = "cgroup" -> BitOr(flags, {CLONE_NEWCGROUP})
      [] typ = "time" -> BitOr(flags, {CLONE_NEWTIME})
      [] OTHER -> flags

\* Flags that take the namespaces with a path as well.
clone_namespace_flags_all(namespaces) ==
    LET RECURSIVE from(_, _)
        from(nss, flags) ==
            IF nss = <<>> THEN flags
            ELSE from(Tail(nss), namespace_arm(flags, Head(nss).typ))
    IN from(namespaces, {})

\* namespaces.rs:11-33: the clone flags of the namespaces without a path.
clone_namespace_flags(namespaces) ==
    LET RECURSIVE from(_, _)
        from(nss, flags) ==
            IF nss = <<>> THEN flags
            ELSE from(Tail(nss),
                      IF Head(nss).path # {} THEN flags
                      ELSE namespace_arm(flags, Head(nss).typ))
    IN from(namespaces, {})

\* namespaces.rs:37-48: the namespaces with a path, cloned in their order.
namespaces_to_join(namespaces) ==
    LET RECURSIVE from(_, _)
        from(nss, to_join) ==
            IF nss = <<>> THEN to_join
            ELSE from(Tail(nss),
                      IF Head(nss).path # {} THEN Append(to_join, Head(nss)) ELSE to_join)
    IN from(namespaces, <<>>)

\* process.rs:24-33: clear_env goes through std::env::args() and removes
\* the variable named by every argument that splits in two on `=`.
clear_env(args, env) ==
    LET RECURSIVE from(_, _)
        from(pairs, e) ==
            IF pairs = <<>> THEN e
            ELSE LET parts == Split(Head(pairs), "=")
                 IN from(Tail(pairs), IF Len(parts) = 2 THEN Without(e, parts[1]) ELSE e)
    IN from(args, env)

\* process.rs:9-19: populate_env sets the variable of every entry of
\* process.env that splits in two on `=`.
populate_env(env_vars, env) ==
    LET RECURSIVE from(_, _)
        from(pairs, e) ==
            IF pairs = <<>> THEN e
            ELSE LET parts == Split(Head(pairs), "=")
                 IN from(Tail(pairs),
                         IF Len(parts) = 2 THEN Insert(e, parts[1], parts[2]) ELSE e)
    IN from(env_vars, env)

\* rootfs.rs:49-76: mount passes its arguments to libc::mount, which
\* returns 0, or -1 with errno set; it fails when the return value is
\* above 0.
mount(call, err) == IF err > 0 THEN "Generic" ELSE "Ok"

\* rootfs.rs:9-41: the path whose metadata is read, the calls of mount in
\* their order and the result.  `meta` is what is at the path, `rets` what
\* libc::mount returns to each call.
setup_rootfs(root, bundle_path, meta, rets) ==
    LET checked == Push(bundle_path, root)
        slave == [source |-> EmptyPath, target |-> [abs |-> TRUE, comps |-> <<>>],
                  fstype |-> "", flags |-> {MS_SLAVE, MS_REC}]
        private == [source |-> EmptyPath, target |-> root,
                    fstype |-> "", flags |-> {MS_PRIVATE}]
        bind == [source |-> root, target |-> root,
                 fstype |-> "bind", flags |-> {MS_BIND, MS_REC}]
        end(res, calls) == [res |-> res, checked |-> checked, calls |-> calls]
    IN IF meta = "missing" THEN end("IO", <<>>)
       ELSE IF meta # "dir" THEN end("RootFs", <<>>)
       ELSE IF mount(slave, rets[1]) # "Ok" THEN end("RootFs", <<slave>>)
       ELSE IF mount(private, rets[2]) # "Ok" THEN end("RootFs", <<slave, private>>)
       ELSE IF mount(bind, rets[3]) # "Ok" THEN end("RootFs", <<slave, private, bind>>)
       ELSE end("Ok", <<slave, private, bind>>)

\* No function of the container process is applied apart from the lifecycle.
PrepIdle == prep = [fn |-> "none", inp |-> <<>>, out |-> <<>>, done |-> {}]

\* create.rs:99-101: the clone flags of the namespaces of the config.
CloneNamespaceFlags ==
    /\ prep.fn = "namespaces" /\ prep.done = {}
    /\ prep' = [prep EXCEPT !.out.flags = clone_namespace_flags(prep.inp),
                            !.done = @ \cup {"flags"}]
    /\ UNCHANGED <<keyed, ctl, stateDoc, pathVars, mountVars, lifecycleVars>>

\* create.rs:103-107: the namespaces the container process is to join.
NamespacesToJoin ==
    /\ prep.fn = "namespaces" /\ prep.done = {"flags"}
    /\ prep' = [prep EXCEPT !.out.join = namespaces_to_join(prep.inp),
                            !.done = @ \cup {"join"}]
    /\ UNCHANGED <<keyed, ctl, stateDoc, pathVars, mountVars, lifecycleVars>>

\* init.rs:38: clear_env on the environment the process has from the runtime.
ClearEnv ==
    /\ prep.fn = "env" /\ prep.done = {}
    /\ prep' = [prep EXCEPT !.out = clear_env(prep.inp.args, prep.inp.env),
                            !.done = {"clear"}]
    /\ UNCHANGED <<keyed, ctl, stateDoc, pathVars, mountVars, lifecycleVars>>

\* init.rs:39: populate_env with process.env of the config.
PopulateEnv ==
    /\ prep.fn = "env" /\ prep.done = {"clear"}
    /\ prep' = [prep EXCEPT !.out = populate_env(prep.inp.vars, prep.out),
                            !.done = {"clear", "populate"}]
    /\ UNCHANGED <<keyed, ctl, stateDoc, pathVars, mountVars, lifecycleVars>>

\* init.rs:51: setup_rootfs with the config and the bundle path.
SetupRootfs ==
    /\ prep.fn = "rootfs" /\ prep.done = {}
    /\ prep' = [prep EXCEPT !.out = setup_rootfs(prep.inp.root, prep.inp.bundle_path,
                                                 prep.inp.meta, prep.inp.rets),
                            !.done = {"setup_rootfs"}]
    /\ UNCHANGED <<keyed, ctl, stateDoc, pathVars, mountVars, lifecycleVars>>

\* No interface file is touched, no State is serialised and no function of
\* the container process is applied apart from the lifecycle.
FilesIdle == KeyedIdle /\ CtlIdle /\ StateDocIdle /\ PrepIdle

----------------------------------------------------------------------------
\* No invocation has begun and nothing of the id exists.
LifecycleInit ==
    /\ hupIgnored \in BOOLEAN
    /\ stateDir = FALSE
    /\ stateJson = NoFile
    /\ fifoPath = 0
    /\ fifoBytes = 0
    /\ cgroupDir = 0
    /\ cpc = [i \in Creators |-> "idle"]
    /\ cres = [i \in Creators |-> "none"]
    /\ pcont = [i \in Creators |-> StateNew]
    /\ ret = [i \in Creators |-> 0]
    /\ rdRes = [i \in Creators |-> "unread"]
    /\ pipe = [i \in Creators |-> <<>>]
    /\ cgfd = [i \in Creators |-> 0]
    /\ chpc = [i \in Creators |-> "none"]
    /\ chExit = [i \in Creators |-> -1]
    /\ ccont = [i \in Creators |-> StateNew]
    /\ iargs = [i \in Creators |-> StateNew]
    /\ chBlockedOn = [i \in Creators |-> 0]
    /\ spc = [s \in Starters |-> "idle"]
    /\ sres = [s \in Starters |-> "none"]
    /\ sBlockedOn = [s \in Starters |-> 0]
    /\ dpc = [d \in Deleters |-> "idle"]
    /\ dres = [d \in Deleters |-> "none"]

\* The lifecycle of the id runs with one config: the cgroup paths, the mount
\* options and the interface files are those of PathIdle, MountIdle and
\* FilesIdle throughout.
Init == LifecycleInit /\ PathIdle /\ MountIdle /\ FilesIdle

----------------------------------------------------------------------------
(* create: the parent *)

\* The create invocation i returns with error e (or "Ok").
CreateReturns(i, e) ==
    /\ cpc' = [cpc EXCEPT ![i] = "done"]
    /\ cres' = [cres EXCEPT ![i] = e]

\* The config.json of a bundle: the file is there or not, its text is the
\* JSON of a Config or not, and process.cwd is absolute or not.
ConfigFiles == [present : BOOLEAN, json : BOOLEAN, cwd_absolute : BOOLEAN]

\* config.rs:35-55 and 151-154: Config::load fails with the Bundle error
\* when the file cannot be opened, when it does not parse and when
\* valid_spec finds process.cwd relative.
load(file) ==
    IF ~file.present THEN "Bundle"
    ELSE IF ~file.json THEN "Bundle"
    ELSE IF ~file.cwd_absolute THEN "Bundle"
    ELSE "Ok"

\* create that persists the initial state before it loads the config.
CreateWriteThenLoad(i) ==
    /\ cpc[i] = "idle"
    /\ MayBegin(cpc, i)
    /\ \E file \in ConfigFiles :
        /\ pcont' = [pcont EXCEPT ![i] = StateNew]
        /\ stateDir' = TRUE
        /\ stateJson' = StateNew
        /\ IF load(file) = "Bundle"
           THEN CreateReturns(i, "Bundle")
           ELSE /\ cpc' = [cpc EXCEPT ![i] = "fifo"]
                /\ UNCHANGED cres
    /\ UNCHANGED <<pureVars, hupIgnored, fifoPath, fifoBytes, cgroupDir, ret, rdRes, pipe, cgfd,
                   childVars, startVars, deleteVars>>

\* create without the existence check.
CreateLoadNoCheck(i) ==
    /\ cpc[i] = "idle"
    /\ MayBegin(cpc, i)
    /\ \E file \in ConfigFiles :
        IF load(file) = "Bundle"
        THEN /\ CreateReturns(i, "Bundle")
             /\ UNCHANGED pcont
        ELSE /\ pcont' = [pcont EXCEPT ![i] = StateNew]
             /\ cpc' = [cpc EXCEPT ![i] = "write_state"]
             /\ UNCHANGED cres
    /\ UNCHANGED <<pureVars, hupIgnored, fsVars, ret, rdRes, pipe, cgfd, childVars, startVars, deleteVars>>

\* create.rs:24-34: Config::load, setup_ctx, Container::new and the
\* existence check.
CreateLoad(i) ==
    /\ cpc[i] = "idle"
    /\ MayBegin(cpc, i)
    /\ \E file \in ConfigFiles :
        IF load(file) = "Bundle"
        THEN /\ CreateReturns(i, "Bundle")
             /\ UNCHANGED pcont
        ELSE /\ pcont' = [pcont EXCEPT ![i] = StateNew]
             /\ IF exists
                THEN CreateReturns(i, "State")
                ELSE /\ cpc' = [cpc EXCEPT ![i] = "write_state"]
                     /\ UNCHANGED cres
    /\ UNCHANGED <<pureVars, hupIgnored, fsVars, ret, rdRes, pipe, cgfd, childVars, startVars, deleteVars>>

\* Container::write_state: makes the state directory of the id when it is
\* missing and writes the state of the container to state.json.
write_state(st) ==
    /\ stateDir' = TRUE
    /\ stateJson' = st

\* create.rs:36: persist the initial state.
CreateWriteState(i) ==
    /\ cpc[i] = "write_state"
    /\ write_state(pcont[i])
    /\ cpc' = [cpc EXCEPT ![i] = "fifo"]
    /\ UNCHANGED <<pureVars, hupIgnored, fifoPath, fifoBytes, cgroupDir, cres, pcont, ret, rdRes, pipe, cgfd,
                   childVars, startVars, deleteVars>>

\* create.rs:40-45: the ready pipe, then mkfifo of exec_fifo, which fails
\* when the node exists or the directory is gone.
CreateFifo(i) ==
    /\ cpc[i] = "fifo"
    /\ \E piped \in BOOLEAN :
        IF ~piped
        THEN /\ CreateReturns(i, "IO")
             /\ UNCHANGED fifoPath
        ELSE IF stateDir /\ NodeFree(fifoPath)
        THEN /\ fifoPath' = i
             /\ cpc' = [cpc EXCEPT ![i] = "cgroup"]
             /\ UNCHANGED cres
        ELSE /\ CreateReturns(i, "Fifo")
             /\ UNCHANGED fifoPath
    /\ UNCHANGED <<pureVars, hupIgnored, stateDir, stateJson, fifoBytes, cgroupDir, pcont, ret, rdRes, pipe, cgfd,
                   childVars, startVars, deleteVars>>

\* create.rs:98-119: detect_cgroup_version (the process exits with code 1
\* when it fails), then create_cgroup at <cgroup_root>/<id>: create_dir fails
\* when the directory exists; a controller write can fail after the
\* directory was made.
CreateCgroup(i) ==
    /\ cpc[i] = "cgroup"
    /\ \E v2 \in BOOLEAN, written \in BOOLEAN :
        IF ~v2
        THEN /\ CreateReturns(i, "exit1")
             /\ UNCHANGED cgroupDir
        ELSE IF ~NodeFree(cgroupDir)
        THEN /\ CreateReturns(i, "IO")
             /\ UNCHANGED cgroupDir
        ELSE /\ cgroupDir' = i
             /\ IF written
                THEN /\ cpc' = [cpc EXCEPT ![i] = "open_cgroup"]
                     /\ UNCHANGED cres
                ELSE CreateReturns(i, "IO")
    /\ UNCHANGED <<pureVars, hupIgnored, stateDir, stateJson, fifoPath, fifoBytes, pcont, ret, rdRes, pipe, cgfd,
                   childVars, startVars, deleteVars>>

\* A create that goes on to clone3 without opening the cgroup directory.
CreateSkipOpenCgroup(i) ==
    /\ cpc[i] = "open_cgroup"
    /\ cpc' = [cpc EXCEPT ![i] = "clone"]
    /\ UNCHANGED <<pureVars, hupIgnored, fsVars, cres, pcont, ret, rdRes, pipe, cgfd, childVars,
                   startVars, deleteVars>>

\* create.rs:132-135: open the cgroup directory.
CreateOpenCgroup(i) ==
    /\ cpc[i] = "open_cgroup"
    /\ IF cgroupDir = 0
       THEN /\ CreateReturns(i, "IO")
            /\ UNCHANGED cgfd
       ELSE /\ cgfd' = [cgfd EXCEPT ![i] = cgroupDir]
            /\ cpc' = [cpc EXCEPT ![i] = "clone"]
            /\ UNCHANGED cres
    /\ UNCHANGED <<pureVars, hupIgnored, fsVars, pcont, ret, rdRes, pipe, childVars, startVars, deleteVars>>

\* create.rs:136, process.rs:36-60: clone3 into the cgroup of the
\* descriptor; it fails when the kernel refuses or the cgroup was removed.
\* The child starts with a copy of the memory of the parent.
CreateClone(i) ==
    /\ cpc[i] = "clone"
    /\ \E cloned \in BOOLEAN :
        IF cloned /\ cgroupDir = cgfd[i]
        THEN /\ cpc' = [cpc EXCEPT ![i] = "read"]
             /\ chpc' = [chpc EXCEPT ![i] = "setup"]
             /\ ccont' = [ccont EXCEPT ![i] = pcont[i]]
             /\ iargs' = [iargs EXCEPT ![i] = pcont[i]]
             /\ UNCHANGED cres
        ELSE /\ CreateReturns(i, "Clone")
             /\ UNCHANGED <<chpc, ccont, iargs>>
    /\ UNCHANGED <<pureVars, hupIgnored, fsVars, pcont, ret, rdRes, pipe, cgfd, chExit, chBlockedOn,
                   startVars, deleteVars>>

\* create.rs:152-169: the read of the ready status into `ret` (initially 0)
\* and the test of `ret`.  The read either delivers the int the child wrote,
\* or returns end of file when no writer is left, or fails with an errno
\* other than EINTR; in the last two cases `ret` keeps its value.
CreateRead(i) ==
    /\ cpc[i] = "read"
    /\ \E failed \in BOOLEAN :
        /\ ~failed => ~ReadBlocks(i)
        /\ LET delivers == ~failed /\ pipe[i] # <<>>
               got == IF delivers THEN Head(pipe[i]) ELSE ret[i]
           IN /\ ret' = [ret EXCEPT ![i] = got]
              /\ rdRes' = [rdRes EXCEPT ![i] =
                             IF failed THEN "error" ELSE IF delivers THEN "status" ELSE "eof"]
              /\ pipe' = [pipe EXCEPT ![i] = IF delivers THEN Tail(pipe[i]) ELSE pipe[i]]
              /\ IF got > 0
                 THEN CreateReturns(i, "Init")
                 ELSE /\ cpc' = [cpc EXCEPT ![i] = "created"]
                      /\ UNCHANGED cres
    /\ UNCHANGED <<pureVars, hupIgnored, fsVars, pcont, cgfd, childVars, startVars, deleteVars>>

\* create.rs:56-59: update_status(Created), write_state, return Ok.
CreateCreated(i) ==
    /\ cpc[i] = "created"
    /\ pcont' = [pcont EXCEPT ![i] = update_status(pcont[i], "created")]
    /\ write_state(pcont'[i])
    /\ CreateReturns(i, "Ok")
    /\ UNCHANGED <<pureVars, hupIgnored, fifoPath, fifoBytes, cgroupDir, ret, rdRes, pipe, cgfd,
                   childVars, startVars, deleteVars>>

----------------------------------------------------------------------------
(* create: the child, init.rs *)

\* The child i terminates with the exit code; its parent gets SIGHUP.
ChildExits(i, code) ==
    /\ chpc' = [chpc EXCEPT ![i] = "exited"]
    /\ chExit' = [chExit EXCEPT ![i] = code]
    /\ IF HupKills(i)
       THEN CreateReturns(i, "killed")
       ELSE UNCHANGED <<cpc, cres>>

\* An init that goes from the setup to the FIFO without the ready
\* notification.
ChildSetupNoNotify(i) ==
    /\ chpc[i] = "setup"
    /\ iargs' = [iargs EXCEPT ![i] = set_pid(iargs[i], ChildPid(i))]
    /\ \E failing \in SetupSteps \cup {"none"} :
        IF failing = "none"
        THEN /\ chpc' = [chpc EXCEPT ![i] = "wait_for_exec"]
             /\ UNCHANGED <<chExit, cpc, cres>>
        ELSE ChildExits(i, 1)
    /\ UNCHANGED <<pureVars, hupIgnored, fsVars, pcont, ret, rdRes, pipe, cgfd, ccont, chBlockedOn,
                   startVars, deleteVars>>

\* init.rs:30-54: set_pid on the container of InitArgs, then join_namspaces,
\* clear_env, populate_env, set_rlimits, set_iopriority, setup_rootfs; the
\* first step that fails ends the process with exit(1).
ChildSetup(i) ==
    /\ chpc[i] = "setup"
    /\ iargs' = [iargs EXCEPT ![i] = set_pid(iargs[i], ChildPid(i))]
    /\ \E failing \in SetupSteps \cup {"none"} :
        IF failing = "none"
        THEN /\ chpc' = [chpc EXCEPT ![i] = "notify"]
             /\ UNCHANGED <<chExit, cpc, cres>>
        ELSE ChildExits(i, 1)
    /\ UNCHANGED <<pureVars, hupIgnored, fsVars, pcont, ret, rdRes, pipe, cgfd, ccont, chBlockedOn,
                   startVars, deleteVars>>

\* init.rs:72-85: notify_container_ready writes the int 0 to the ready pipe.
ChildNotify(i) ==
    /\ chpc[i] = "notify"
    /\ pipe' = [pipe EXCEPT ![i] = Append(pipe[i], 0)]
    /\ chpc' = [chpc EXCEPT ![i] = "wait_for_exec"]
    /\ UNCHANGED <<pureVars, hupIgnored, fsVars, parentVars, chExit, ccont, iargs, chBlockedOn,
                   startVars, deleteVars>>

\* Start invocations blocked in open-for-write on FIFO node k.
WritersOn(k) == {s \in Starters : spc[s] = "blocked" /\ sBlockedOn[s] = k}

\* Children blocked in open-for-read on FIFO node k.
ReadersOn(k) == {i \in Creators : chpc[i] = "blocked" /\ chBlockedOn[i] = k}

\* init.rs:92-95: wait_for_exec opens the FIFO for read.  The open panics
\* (exit code 101) when the path is gone, returns when a writer is waiting
\* in its open, releasing the writers, and suspends otherwise.
ChildOpenFifo(i) ==
    /\ chpc[i] = "wait_for_exec"
    /\ IF fifoPath = 0
       THEN /\ ChildExits(i, 101)
            /\ UNCHANGED <<chBlockedOn, startVars>>
       ELSE IF WritersOn(fifoPath) # {}
       THEN /\ chpc' = [chpc EXCEPT ![i] = "exec"]
            /\ spc' = [s \in Starters |-> IF s \in WritersOn(fifoPath) THEN "done" ELSE spc[s]]
            /\ sres' = [s \in Starters |-> IF s \in WritersOn(fifoPath) THEN "Ok" ELSE sres[s]]
            /\ UNCHANGED <<chExit, chBlockedOn, cpc, cres, sBlockedOn>>
       ELSE /\ chpc' = [chpc EXCEPT ![i] = "blocked"]
            /\ chBlockedOn' = [chBlockedOn EXCEPT ![i] = fifoPath]
            /\ UNCHANGED <<chExit, cpc, cres, startVars>>
    /\ UNCHANGED <<pureVars, hupIgnored, fsVars, pcont, ret, rdRes, pipe, cgfd, ccont, iargs, deleteVars>>

\* init.rs:63-69, create.rs:140-148: exec is a stub that returns Ok, init
\* returns 0 and init_container_proc returns Ok to create in the child.
\* create.rs:56-59 in the child: update_status(Created), write_state,
\* return Ok to main, which ends the process with exit code 0.
ChildExec(i) ==
    /\ chpc[i] = "exec"
    /\ ccont' = [ccont EXCEPT ![i] = update_status(ccont[i], "created")]
    /\ write_state(ccont'[i])
    /\ ChildExits(i, 0)
    /\ UNCHANGED <<pureVars, hupIgnored, fifoPath, fifoBytes, cgroupDir, pcont, ret, rdRes, pipe, cgfd,
                   iargs, chBlockedOn, startVars, deleteVars>>

----------------------------------------------------------------------------
(* start *)

\* start.rs:7-10: the invocation begins: setup_ctx and the FIFO path.
StartInvoke(s) ==
    /\ spc[s] = "idle"
    /\ MayBegin(spc, s)
    /\ spc' = [spc EXCEPT ![s] = "open"]
    /\ UNCHANGED <<pureVars, hupIgnored, fsVars, parentVars, pipe, childVars, sres, sBlockedOn, deleteVars>>

\* start opening another path than the one of mkfifo: the open fails.
StartOpenWrongPath(s) ==
    /\ spc[s] = "open"
    /\ spc' = [spc EXCEPT ![s] = "done"]
    /\ sres' = [sres EXCEPT ![s] = "Fifo"]
    /\ UNCHANGED <<pureVars, hupIgnored, fsVars, parentVars, pipe, childVars, sBlockedOn, deleteVars>>

\* start.rs:13-20: open exec_fifo for write and append, drop the file,
\* return Ok.  The open fails when the path is missing, returns when a
\* reader is waiting in its open, releasing the readers, and suspends
\* otherwise.  Nothing is written and the status is not touched.
StartOpen(s) ==
    /\ spc[s] = "open"
    /\ IF fifoPath = 0
       THEN /\ spc' = [spc EXCEPT ![s] = "done"]
            /\ sres' = [sres EXCEPT ![s] = "Fifo"]
            /\ UNCHANGED <<sBlockedOn, chpc, chBlockedOn>>
       ELSE IF ReadersOn(fifoPath) # {}
       THEN /\ spc' = [spc EXCEPT ![s] = "done"]
            /\ sres' = [sres EXCEPT ![s] = "Ok"]
            /\ chpc' = [i \in Creators |-> IF i \in ReadersOn(fifoPath) THEN "exec" ELSE chpc[i]]
            /\ UNCHANGED <<sBlockedOn, chBlockedOn>>
       ELSE /\ spc' = [spc EXCEPT ![s] = "blocked"]
            /\ sBlockedOn' = [sBlockedOn EXCEPT ![s] = fifoPath]
            /\ UNCHANGED <<sres, chpc, chBlockedOn>>
    /\ UNCHANGED <<pureVars, hupIgnored, fsVars, parentVars, pipe, chExit, ccont, iargs, deleteVars>>

----------------------------------------------------------------------------
(* delete *)

\* The paths of the container id in the file systems.
FS == [stateDir |-> stateDir, stateJson |-> stateJson, fifoPath |-> fifoPath,
       cgroupDir |-> cgroupDir]

\* remove_dir_all without the metadata guard: it fails on a missing directory.
remove_state_dir_unguarded(fs) ==
    IF fs.stateDir
    THEN [fs |-> [fs EXCEPT !.stateDir = FALSE, !.stateJson = NoFile, !.fifoPath = 0],
          res |-> "Ok"]
    ELSE [fs |-> fs, res |-> "IO"]

\* delete.rs:9-13: when the state directory is there, remove_dir_all
\* removes it with state.json and exec_fifo.
remove_state_dir(fs) ==
    IF fs.stateDir
    THEN [fs |-> [fs EXCEPT !.stateDir = FALSE, !.stateJson = NoFile, !.fifoPath = 0],
          res |-> "Ok"]
    ELSE [fs |-> fs, res |-> "Ok"]

\* delete.rs:16-20: when the cgroup directory is there, remove_dir removes
\* it; the kernel refuses (EBUSY) while the cgroup has member processes.
remove_cgroup(fs) ==
    IF fs.cgroupDir = 0
    THEN [fs |-> fs, res |-> "Ok"]
    ELSE IF CgroupProcs(fs.cgroupDir) # {}
    THEN [fs |-> fs, res |-> "IO"]
    ELSE [fs |-> [fs EXCEPT !.cgroupDir = 0], res |-> "Ok"]

\* A delete that cleans up the state directory only.
delete_state_only(fs) == remove_state_dir(fs)

\* delete.rs:5-23: one delete invocation run on its own from fs.
delete(fs) ==
    LET first == remove_state_dir(fs)
    IN IF first.res # "Ok" THEN first ELSE remove_cgroup(first.fs)

\* The files become those of fs.
SetFS(fs) ==
    /\ stateDir' = fs.stateDir
    /\ stateJson' = fs.stateJson
    /\ fifoPath' = fs.fifoPath
    /\ cgroupDir' = fs.cgroupDir

\* delete.rs:6-13: setup_ctx and the clean-up of the state directory.
DeleteStateDir(d) ==
    /\ dpc[d] = "idle"
    /\ MayBegin(dpc, d)
    /\ LET r == remove_state_dir(FS)
       IN /\ SetFS(r.fs)
          /\ IF r.res = "Ok"
             THEN /\ dpc' = [dpc EXCEPT ![d] = "cgroup"]
                  /\ UNCHANGED dres
             ELSE /\ dpc' = [dpc EXCEPT ![d] = "done"]
                  /\ dres' = [dres EXCEPT ![d] = r.res]
    /\ UNCHANGED <<pureVars, hupIgnored, fifoBytes, parentVars, pipe, childVars, startVars>>

\* delete.rs:15-22: the clean-up of the cgroup, and the return.
DeleteCgroup(d) ==
    /\ dpc[d] = "cgroup"
    /\ LET r == remove_cgroup(FS)
       IN /\ SetFS(r.fs)
          /\ dres' = [dres EXCEPT ![d] = r.res]
    /\ dpc' = [dpc EXCEPT ![d] = "done"]
    /\ UNCHANGED <<pureVars, hupIgnored, fifoBytes, parentVars, pipe, childVars, startVars>>

----------------------------------------------------------------------------
Next ==
    \/ \E i \in Creators : CreateLoad(i)
    \/ \E i \in Creators : CreateWriteState(i)
    \/ \E i \in Creators : CreateFifo(i)
    \/ \E i \in Creators : CreateCgroup(i)
    \/ \E i \in Creators : CreateOpenCgroup(i)
    \/ \E i \in Creators : CreateClone(i)
    \/ \E i \in Creators : CreateRead(i)
    \/ \E i \in Creators : CreateCreated(i)
    \/ \E i \in Creators : ChildSetup(i)
    \/ \E i \in Creators : ChildNotify(i)
    \/ \E i \in Creators : ChildOpenFifo(i)
    \/ \E i \in Creators : ChildExec(i)
    \/ \E s \in Starters : StartInvoke(s)
    \/ \E s \in Starters : StartOpen(s)
    \/ \E d \in Deleters : DeleteStateDir(d)
    \/ \E d \in Deleters : DeleteCgroup(d)

Spec == Init /\ [][Next]_vars

\* The kernel schedules every runnable process: a start invocation that has
\* begun performs its open.  That an invocation begins at all is up to the
\* caller.
LiveSpec ==
    /\ Spec
    /\ \A s \in Starters : WF_vars(StartOpen(s))

----------------------------------------------------------------------------
(* The cgroup paths, for every root, id and cgroups_path *)

PathInit ==
    /\ LifecycleInit /\ ~hupIgnored
    /\ MountIdle /\ FilesIdle
    /\ cgIn \in [root : CgroupRoots, id : Paths,
                 cfg : {[some |-> FALSE, path |-> EmptyPath]}
                       \cup {[some |-> TRUE, path |-> p] : p \in Paths}]
    /\ cgOut = NoCgOut

PathNext == ResolveCgroupPath \/ CreateCgroupAt \/ DeleteCgroupAt

PathSpec == PathInit /\ [][PathNext]_vars

(* parse_mount_options, for every options list of OptionLists *)

MountInit ==
    /\ LifecycleInit /\ ~hupIgnored
    /\ PathIdle /\ FilesIdle
    /\ options \in OptionLists
    /\ parsed = NotParsed

MountNext == ParseMountOptions

MountSpec == MountInit /\ [][MountNext]_vars

(* The keyed file codecs, for every map of FlatMaps and NestedMaps *)

KeyedInit ==
    /\ LifecycleInit /\ ~hupIgnored
    /\ PathIdle /\ MountIdle /\ CtlIdle /\ StateDocIdle /\ PrepIdle
    /\ \/ \E kind \in {"flat", "nested"} :
            \E data \in IF kind = "flat" THEN FlatMaps ELSE NestedMaps, text \in OldTexts :
                keyed = [kind |-> kind, data |-> data, text |-> text, out |-> EmptyMap, pc |-> "write"]
       \/ \E lines \in SeqsUpTo(NestedLines, MaxLines) :
            keyed = [kind |-> "lines", data |-> lines, text |-> TextOfLines(lines),
                     out |-> EmptyMap, pc |-> "read"]

KeyedNext ==
    \/ WriteFlatKeyedFile
    \/ ReadFlatKeyedFile
    \/ WriteNestedKeyedFile
    \/ ReadNestedKeyedFile

KeyedSpec == KeyedInit /\ [][KeyedNext]_vars

(* set_cgroup_blockio and set_cgroup_rdma, for every section of BlockIOs *)
(* and Rdmas on every cgroup of CgroupFiles                              *)

CtlInit ==
    /\ LifecycleInit /\ ~hupIgnored
    /\ PathIdle /\ MountIdle /\ KeyedIdle /\ StateDocIdle /\ PrepIdle
    /\ \/ \E op \in {"blockio", "rdma"} :
            \E cfg \in IF op = "blockio" THEN BlockIOs ELSE Rdmas, files \in CgroupFiles :
                ctl = [op |-> op, cfg |-> cfg, old |-> files, files |-> files,
                       res |-> "none", done |-> FALSE]
       \/ \E cfg \in CgroupConfigs, dir \in CgroupDirs :
            ctl = [op |-> "create", cfg |-> cfg, old |-> dir, files |-> dir,
                   res |-> "none", done |-> FALSE]

CtlNext == SetCgroupBlockio \/ SetCgroupRdma \/ CreateCgroupDir

CtlSpec == CtlInit /\ [][CtlNext]_vars

(* The State object and its JSON document *)

DocInit ==
    /\ LifecycleInit /\ ~hupIgnored
    /\ PathIdle /\ MountIdle /\ FilesIdle

DocNext == DocUpdateStatus \/ DocSetPid \/ DocSerialize

DocSpec == DocInit /\ [][DocNext]_vars

----------------------------------------------------------------------------
(* The functions of the clone and the container process: for every list  *)
(* of at most MaxNamespaces namespaces; for every process.env of at most  *)
(* MaxEnv entries, with the environment and the arguments of the runtime; *)
(* and for every root.path, bundle path and working directory of Paths    *)

PrepInit ==
    /\ LifecycleInit /\ ~hupIgnored
    /\ PathIdle /\ MountIdle /\ KeyedIdle /\ CtlIdle /\ StateDocIdle
    /\ \/ \E namespaces \in SeqsUpTo(
                [typ : {"pid", "network", "mount", "ipc", "uts", "user", "cgroup", "time",
                        "bogus"},
                 path : {{}, {"/proc/1/ns/x"}}], MaxNamespaces) :
            prep = [fn |-> "namespaces", inp |-> namespaces,
                    out |-> [flags |-> {}, join |-> <<>>], done |-> {}]
       \/ \E env \in {[n \in N |-> IF n = <<"PATH">> THEN <<"/bin">> ELSE <<"/root">>] :
                          N \in SUBSET {<<"PATH">>, <<"HOME">>}},
             id \in {<<"c1">>, <<"PATH", "=", "x">>},
             pe \in SeqsUpTo({<<"PATH", "=", "/usr/bin">>, <<"PATH", "=", "/sbin">>,
                              <<"TERM", "=", "xterm">>, <<"NOVALUE">>,
                              <<"A", "=", "b", "=", "c">>}, MaxEnv) :
            prep = [fn |-> "env",
                    inp |-> [env |-> env, vars |-> pe,
                             args |-> <<<<"container-runtime">>, <<"create">>, id, <<"/bundle">>>>],
                    out |-> env, done |-> {}]
       \/ \E root \in {r \in Paths : r.comps # <<>>}, bundle_path \in Paths,
             cwd \in {c \in Paths : c.abs /\ Len(c.comps) <= 1},
             meta \in {"dir", "file", "missing"}, rets \in [1..3 -> {0, -1}] :
            prep = [fn |-> "rootfs",
                    inp |-> [root |-> root, bundle_path |-> bundle_path, cwd |-> cwd,
                             meta |-> meta, rets |-> rets],
                    out |-> <<>>, done |-> {}]

PrepNext ==
    \/ CloneNamespaceFlags
    \/ NamespacesToJoin
    \/ ClearEnv
    \/ PopulateEnv
    \/ SetupRootfs

PrepSpec == PrepInit /\ [][PrepNext]_vars

----------------------------------------------------------------------------
(* Properties *)

\* The child of create i has passed the open of the FIFO.
PastFifo(i) == chpc[i] = "exec" \/ (chpc[i] = "exited" /\ chExit[i] = 0)

\* The child of create i is at the rendezvous: setup done, ready status
\* written, the open of the FIFO not passed.
AtRendezvous(i) == chpc[i] \in {"wait_for_exec", "blocked"}

\* No read of a ready pipe has failed.
NoReadError == \A i \in Creators : rdRes[i] # "error"

\* No invocation is in progress and no child is running: every child that
\* lives is suspended in its open of the FIFO.
Settled ==
    /\ \A i \in Creators : cpc[i] \in {"idle", "done"} /\ chpc[i] \in {"none", "blocked", "exited"}
    /\ \A s \in Starters : spc[s] \in {"idle", "done", "blocked"}
    /\ \A d \in Deleters : dpc[d] \in {"idle", "done"}

\* C1: when a create invocation returns success (having read the ready
\* status), state.json exists with status created and a nonzero pid.
C1_CreatedWithPid ==
    [][\A i \in Creators :
        (cres[i] # "Ok" /\ cres'[i] = "Ok" /\ rdRes[i] = "status")
            => (stateJson'.status = "created" /\ stateJson'.pid # 0)]_vars

\* C2: whenever the persisted status is created, the child of the create
\* that returned success and made the exec_fifo in place is quiescent at the
\* rendezvous (no read of a ready pipe having failed).
C2_CreatedIsQuiescent ==
    \A i \in Creators :
        (stateJson.status = "created" /\ cres[i] = "Ok" /\ fifoPath = i /\ NoReadError)
            => AtRendezvous(i)

\* C3: no child is past the open of the FIFO before its create has
\* persisted status created (and returned).
C3_NoReleaseBeforeCreated ==
    \A i \in Creators : PastFifo(i) => cres[i] = "Ok"

\* C4: a create parent that has persisted created has read the ready status
\* from the pipe, and the status was zero.
C4_CreatedOnlyAfterReady ==
    \A i \in Creators : cres[i] = "Ok" => (rdRes[i] = "status" /\ ret[i] = 0)

\* The child of create i has ended in exit(1), as it does when a setup step
\* of init fails.
SetupFailed(i) == chpc[i] = "exited" /\ chExit[i] = 1

\* C5: once a setup step of the child has failed, the child has written a
\* status to the ready pipe, and the create of the parent, when it ends, ends
\* with the Init error.
C5_SetupFailureReported ==
    \A i \in Creators :
        SetupFailed(i) =>
            /\ (pipe[i] # <<>> \/ rdRes[i] = "status")
            /\ (cpc[i] = "done" => cres[i] = "Init")

\* C6: the read of the ready pipe does not stay suspended after the child
\* has exited.
C6_ReadEndsWhenChildDies ==
    \A i \in Creators : (cpc[i] = "read" /\ chpc[i] = "exited") => ~ReadBlocks(i)

\* C7: the open of a start invocation that finds the child blocked in its
\* open of the FIFO returns success and releases the child, writing nothing;
\* and with the status created, the child blocked on exec_fifo and a start
\* invocation begun, the child gets past the FIFO and a start returns
\* success, unless the FIFO is deleted first.
C7_StartReleasesChild ==
    /\ [][\A s \in Starters :
            (spc[s] = "open" /\ spc'[s] # "open" /\ fifoPath # 0 /\ ReadersOn(fifoPath) # {})
                => /\ sres'[s] = "Ok"
                   /\ \A i \in ReadersOn(fifoPath) : chpc'[i] = "exec"
                   /\ fifoBytes' = fifoBytes]_vars
    /\ \A i \in Creators :
          (/\ stateJson.status = "created"
           /\ chpc[i] = "blocked" /\ chBlockedOn[i] = fifoPath
           /\ \E s \in Starters : spc[s] = "open")
          ~> (\/ PastFifo(i) /\ \E t \in Starters : sres[t] = "Ok"
              \/ chpc[i] = "blocked" /\ chBlockedOn[i] # fifoPath)

\* A start has returned success from an open that did not wait, the child had
\* waited in its open and is now about to exec, and the status is created.
C7_Witness ==
    \E i \in Creators, s \in Starters :
        /\ sres[s] = "Ok" /\ sBlockedOn[s] = 0
        /\ chpc[i] = "exec" /\ chBlockedOn[i] # 0
        /\ stateJson.status = "created"
        /\ fifoBytes = 0

\* C8: when a start invocation returns success, the persisted status is
\* running.
C8_StartedIsRunning ==
    [][\A s \in Starters :
        (sres[s] # "Ok" /\ sres'[s] = "Ok") => stateJson'.status = "running"]_vars

\* C9: a delete invocation on a container whose state directory and cgroup
\* directory are present, run while nothing else runs, leaves neither.
C9_DeleteRemovesBoth ==
    (stateDir /\ cgroupDir # 0 /\ Settled /\ NoReadError) =>
        LET after == delete(FS).fs
        IN ~after.stateDir /\ after.cgroupDir = 0

\* C10: a delete of an id with neither state directory nor cgroup directory
\* returns success and changes nothing, and a second delete leaves the files
\* as the first did.
C10_DeleteIdempotent ==
    LET once == delete(FS)
        twice == delete(once.fs)
    IN /\ (~stateDir /\ cgroupDir = 0) => (once.res = "Ok" /\ once.fs = FS)
       /\ twice.fs = once.fs

\* Two delete invocations have returned success after a create had made the
\* state directory, the FIFO and the cgroup, and nothing is left.
C10_Witness ==
    /\ dpc[1] = "done" /\ dres[1] = "Ok"
    /\ dpc[2] = "done" /\ dres[2] = "Ok"
    /\ \E i \in Creators : cgfd[i] # 0
    /\ ~stateDir /\ cgroupDir = 0
    /\ delete(FS).fs = FS

\* C11: a delete invocation that begins while the persisted status is
\* creating or running removes neither the state directory nor the cgroup
\* directory.
C11_DeleteOnlyFromCreatedOrStopped ==
    [][\A d \in Deleters :
        (dpc[d] = "idle" /\ dpc'[d] # "idle" /\ stateJson.status \in {"creating", "running"})
            => (stateDir' = stateDir /\ cgroupDir' = cgroupDir)]_vars

\* C12: a create invocation for an id whose state.json exists (its config
\* having loaded) ends at once with the State error, leaves state.json,
\* exec_fifo and the cgroup directory as they are and clones no process.
C12_ExistingIdRejected ==
    [][\A i \in Creators :
        (cpc[i] = "idle" /\ cpc'[i] # "idle" /\ exists /\ cres'[i] # "Bundle")
            => /\ cpc'[i] = "done" /\ cres'[i] = "State"
               /\ UNCHANGED fsVars
               /\ chpc' = chpc]_vars

\* A create was rejected with the State error while the container of another
\* create was there in status created, and it has no child.
C12_Witness ==
    \E i \in Creators :
        /\ cres[i] = "State" /\ chpc[i] = "none"
        /\ stateJson.status = "created"
        /\ fifoPath # 0 /\ fifoPath # i

\* No delete invocation has begun.
NoDelete == \A d \in Deleters : dpc[d] = "idle"

\* C13: of the create invocations of an id running with no delete, at most
\* one returns success and at most one clones a container process.
C13_OneCreateWins ==
    NoDelete =>
        /\ Cardinality({i \in Creators : cres[i] = "Ok"}) <= 1
        /\ Cardinality({i \in Creators : chpc[i] # "none"}) <= 1

\* Two creates passed the existence check together; one returned success, the
\* other was refused by mkfifo.
C13_Witness ==
    /\ NoDelete
    /\ \E i, j \in Creators :
        /\ cres[i] = "Ok" /\ chpc[i] # "none"
        /\ cres[j] = "Fifo" /\ chpc[j] = "none"

\* Position of a status in the order creating, created, running, stopped.
Rank(status) ==
    CASE status = "creating" -> 1
      [] status = "created" -> 2
      [] status = "running" -> 3
      [] status = "stoped" -> 4

\* C14: while state.json exists, the persisted status never moves backward
\* in the order creating, created, running, stopped (no read of a ready pipe
\* having failed).
C14_StatusMonotonic ==
    [][(stateJson # NoFile /\ stateJson' # NoFile /\ NoReadError')
        => Rank(stateJson'.status) >= Rank(stateJson.status)]_vars

\* The create invocation i has ended in failure.
CreateFailed(i) == cpc[i] = "done" /\ cres[i] # "Ok"

\* No container child is alive.
NoLiveChild == \A i \in Creators : chpc[i] \in {"none", "exited"}

\* Nothing of the id is left in fs: a create would pass the existence
\* check, mkfifo and create_dir.
ResidueFree(fs) ==
    /\ ~fs.stateDir /\ fs.stateJson = NoFile
    /\ NodeFree(fs.fifoPath) /\ NodeFree(fs.cgroupDir)

C16_StartReturnsOnDeadChild ==
    \A s \in Starters :
        (spc[s] = "blocked" /\ chpc[sBlockedOn[s]] = "exited") =>
            \E i \in Creators :
                \/ chpc[i] \in {"setup", "notify", "wait_for_exec"}
                \/ i = sBlockedOn[s] /\ cpc[i] \in {"cgroup", "open_cgroup", "clone"}

\* The path root with the components of p after it.
Below(root, p) == [abs |-> root.abs, comps |-> root.comps \o p.comps]

\* Path p is root or lies under it.
Within(root, p) ==
    /\ p.abs = root.abs
    /\ Len(p.comps) >= Len(root.comps)
    /\ SubSeq(p.comps, 1, Len(root.comps)) = root.comps

\* C17: for a relative container id, create makes the cgroup directory at
\* the root followed by cgroups_path when the config gives one and at the
\* root followed by the id when it gives none, and delete removes that
\* directory.
C17_CgroupsPathHonoured ==
    ({"create", "delete"} \subseteq cgOut.done /\ ~cgIn.id.abs) =>
        /\ cgOut.created = IF cgIn.cfg.some
                           THEN Below(cgIn.root, cgIn.cfg.path)
                           ELSE Below(cgIn.root, cgIn.id)
        /\ cgOut.deleted = cgOut.created

\* C18: resolve_cgroup_path gives the root joined with the cgroups_path less
\* its leading separator when it is absolute, the root joined with it when
\* it is relative, the root joined with the id when there is none; and the
\* result is always within the root.
C18_ResolveCgroupPath ==
    "resolve" \in cgOut.done =>
        /\ cgOut.resolved =
              IF cgIn.cfg.some
              THEN IF cgIn.cfg.path.abs
                   THEN Push(cgIn.root, StripRoot(cgIn.cfg.path))
                   ELSE Push(cgIn.root, cgIn.cfg.path)
              ELSE Push(cgIn.root, cgIn.id)
        /\ Within(cgIn.root, cgOut.resolved)

\* The flag each clear option clears, and the option that sets that flag.
ClearOptions ==
    [o \in {"atime", "dev", "diratime", "exec", "noiversion", "nolazytime", "loud",
            "norelatime", "nostrictatime", "suid", "rw"} |->
        CASE o = "atime" -> [flag |-> MS_NOATIME, set |-> "noatime"]
          [] o = "dev" -> [flag |-> MS_NODEV, set |-> "nodev"]
          [] o = "diratime" -> [flag |-> MS_NODIRATIME, set |-> "nodiratime"]
          [] o = "exec" -> [flag |-> MS_NOEXEC, set |-> "noexec"]
          [] o = "noiversion" -> [flag |-> MS_I_VERSION, set |-> "iversion"]
          [] o = "nolazytime" -> [flag |-> MS_LAZYTIME, set |-> "lazytime"]
          [] o = "loud" -> [flag |-> MS_SILENT, set |-> "silent"]
          [] o = "norelatime" -> [flag |-> MS_RELATIME, set |-> "relatime"]
          [] o = "nostrictatime" -> [flag |-> MS_STRICTATIME, set |-> "strictatime"]
          [] o = "suid" -> [flag |-> MS_NOSUID, set |-> "nosuid"]
          [] o = "rw" -> [flag |-> MS_RDONLY, set |-> "ro"]]

\* C19: in the result of parse_mount_options the flag of a clear option is
\* unset when no later option of the list sets it; the list of the example
\* gives exactly MS_NOSUID, MS_NODEV and MS_RELATIME.
C19_ClearLeavesUnset ==
    parsed.done =>
        /\ \A k \in 1..Len(options) :
              (/\ options[k] \in DOMAIN ClearOptions
               /\ \A j \in (k + 1)..Len(options) : options[j] # ClearOptions[options[k]].set)
                  => ClearOptions[options[k]].flag \notin parsed.flags
        /\ options = OptionsExample => parsed.flags = {MS_NOSUID, MS_NODEV, MS_RELATIME}

\* The positions of atime and noatime in the options list.
AtimePositions == {k \in 1..Len(options) : options[k] \in {"atime", "noatime"}}

\* C20: when both atime and noatime are in the options list, MS_NOATIME is
\* set in the result exactly when the last of them is noatime.
C20_LastAtimeWins ==
    (/\ parsed.done
     /\ \E k \in AtimePositions : options[k] = "atime"
     /\ \E k \in AtimePositions : options[k] = "noatime")
        => LET last == CHOOSE k \in AtimePositions : \A j \in AtimePositions : j <= k
           IN MS_NOATIME \in parsed.flags <=> options[last] = "noatime"

----------------------------------------------------------------------------
(* Properties of the unknown mount options, C24 *)

\* The option is outside the lexicon of parse_mount_options.
IsUnknownOption(o) == o \notin KnownOptions

IsKnownOption(o) == o \in KnownOptions

\* C24: parse_mount_options appends every option outside its lexicon to the
\* filesystem options as it is and in the order of the list, and the flags
\* are those of the list without these options.
C24_UnknownOptionsVerbatim ==
    parsed.done =>
        /\ parsed.fs_opts = SelectSeq(options, IsUnknownOption)
        /\ parsed.flags = parse_mount_options(SelectSeq(options, IsKnownOption)).flags

\* Two different unknown options around a known one were parsed.
C24_Witness ==
    /\ parsed.done
    /\ options = <<"size=64k", "ro", "myopt=1">>
    /\ parsed.fs_opts = <<"size=64k", "myopt=1">>
    /\ parsed.flags = {MS_RDONLY}

----------------------------------------------------------------------------
(* Properties of the child and of the cgroup descriptor, C25..C27 *)

\* The child of create i has written the ready status: it is in the pipe,
\* or the parent has read it.
ReadyWritten(i) == pipe[i] # <<>> \/ rdRes[i] = "status"

\* The child of create i has begun the open of the FIFO.
BegunFifoOpen(i) ==
    \/ chpc[i] \in {"blocked", "exec"}
    \/ chpc[i] = "exited" /\ chExit[i] \in {0, 101}

C26_ChildWritesNoState ==
    [][\A i \in Creators :
        (chpc[i] = "exec" /\ chpc'[i] # "exec")
            => (stateDir' = stateDir /\ stateJson' = stateJson /\ ccont'[i] = ccont[i])]_vars

\* C27: the descriptor of a create is opened once, on the cgroup directory
\* that exists after create_cgroup has returned success; a child is cloned
\* only by a create whose descriptor is open, the descriptor stays as it is
\* over the clone3, and the child is a member of the cgroup of the
\* descriptor from its first step.
C27_CgroupBeforeClone ==
    [][\A i \in Creators :
        /\ (cgfd'[i] # cgfd[i])
              => (cpc[i] = "open_cgroup" /\ cgfd[i] = 0 /\ cgroupDir # 0 /\ cgfd'[i] = cgroupDir)
        /\ (chpc[i] = "none" /\ chpc'[i] # "none")
              => /\ cpc[i] = "clone" /\ cgfd[i] # 0 /\ cgfd'[i] = cgfd[i]
                 /\ i \in {j \in Creators : chpc'[j] \notin {"none", "exited"} /\ cgfd'[j] = cgfd[i]}]_vars

\* A child runs as a member of the cgroup its create made and opened.
C27_Witness ==
    \E i \in Creators :
        /\ chpc[i] = "setup" /\ cpc[i] = "read"
        /\ cgfd[i] = i /\ cgroupDir = i
        /\ i \in CgroupProcs(i)

----------------------------------------------------------------------------
(* Properties of the keyed file codecs, C21 and C22 *)

\* C21: read_nested_keyed_file of the file that write_nested_keyed_file made
\* of a map of keys to sub-maps returns the map, for the maps whose sub-maps
\* have entries, all with non-empty values.
C21_NestedRoundTrip ==
    (/\ keyed.kind = "nested" /\ keyed.pc = "done"
     /\ \A k \in DOMAIN keyed.data : DOMAIN keyed.data[k] # {})
        => keyed.out = keyed.data

\* The file has nothing but what write_flat_keyed_file made of the map, and
\* read_flat_keyed_file of it has returned the map.
FlatRoundTrip ==
    /\ keyed.pc \in {"read", "done"} => keyed.text \in flat_keyed_text(keyed.data)
    /\ keyed.pc = "done" => keyed.out = keyed.data

\* C22 as stated: the flat round trip holds for every map with string keys
\* and non-empty values.
C22_FlatRoundTripAnyStrings ==
    keyed.kind = "flat" => FlatRoundTrip

\* No key and no value of the map has a space or a newline in it.
PlainMap(data) ==
    \A k \in DOMAIN data :
        /\ \A n \in 1..Len(k) : k[n] \notin {" ", "\n"}
        /\ \A n \in 1..Len(data[k]) : data[k][n] \notin {" ", "\n"}

\* C22, amended: the flat round trip holds for every map whose keys and
\* values have no space and no newline in them.
C22_FlatRoundTrip ==
    (keyed.kind = "flat" /\ PlainMap(keyed.data)) => FlatRoundTrip

\* A map of two entries was written over a longer file and read back.
C22_Witness ==
    /\ keyed.kind = "flat" /\ keyed.pc = "done"
    /\ keyed.data = [k \in {<<"default">>, <<"8:0">>} |-> <<"100">>]
    /\ keyed.text = <<"8:0", " ", "100", "\n", "default", " ", "100", "\n">>
    /\ keyed.out = keyed.data

----------------------------------------------------------------------------
(* Properties of the serialised state, C23 *)

\* C23: the status of every state.json document is one of creating,
\* created, running and stopped, and the document of a new State has status
\* creating and pid 0.
C23_StatusStrings ==
    \A j \in stateDoc.json :
        /\ j.doc.status \in {"creating", "created", "running", "stopped"}
        /\ j.of = StateNew => j.doc = [status |-> "creating", pid |-> 0]

----------------------------------------------------------------------------
(* Properties of the io and rdma controllers, C28..C30 *)

\* cgroup/mod.rs:192-206: the throttle lists of a blockIO section by the
\* sub-key of io.max each one is applied under.
ThrottleLists(blockio) ==
    [rbps |-> blockio.throttle_read_bps_device,
     wbps |-> blockio.throttle_write_bps_device,
     riops |-> blockio.throttle_read_iops_device,
     wiops |-> blockio.throttle_write_iops_device]

\* The rates the section configures for the sub-key of the device entry.
Rates(blockio, subkey, key) ==
    LET list == ThrottleLists(blockio)[subkey]
    IN {list[n].rate : n \in {n \in 1..Len(list) : DevKey(list[n]) = key}}

\* The values the map of a nested keyed file has under the sub-key of the
\* entry: one or none.
SubValue(map, key, subkey) ==
    IF key \in DOMAIN map /\ <<subkey>> \in DOMAIN map[key] THEN {map[key][<<subkey>>]} ELSE {}

\* The device entries a blockIO section can name.
DevKeys == {<<"8:0">>, <<"8:16">>}

SubKeys == {"rbps", "wbps", "riops", "wiops"}

\* C28: after set_cgroup_blockio every rate of a throttle list is in io.max
\* under the sub-key of its list in the entry of its device, and the other
\* sub-keys of that entry are as they were.
C28_ThrottleUnderOwnSubkey ==
    (ctl.op = "blockio" /\ ctl.done) =>
        LET before == read_nested_keyed_file(ctl.old["io.max"])
            after == read_nested_keyed_file(ctl.files["io.max"])
        IN \A key \in DevKeys :
            (\E subkey \in SubKeys : Rates(ctl.cfg, subkey, key) # {}) =>
                \A subkey \in SubKeys :
                    IF Rates(ctl.cfg, subkey, key) # {}
                    THEN SubValue(after, key, subkey)
                            = {to_string(r) : r \in Rates(ctl.cfg, subkey, key)}
                    ELSE SubValue(after, key, subkey) = SubValue(before, key, subkey)

\* C29: after set_cgroup_rdma the rdma.max file has, for every device of the
\* section, the hca_handle and the hca_object the section gives.
C29_RdmaWritten ==
    (ctl.op = "rdma" /\ ctl.done) =>
        LET after == read_nested_keyed_file(ctl.files["rdma.max"])
        IN \A key \in DOMAIN ctl.cfg :
            /\ \A h \in ctl.cfg[key].hca_handles :
                  SubValue(after, key, "hca_handle") = {to_string(h)}
            /\ \A o \in ctl.cfg[key].hca_objects :
                  SubValue(after, key, "hca_object") = {to_string(o)}

\* The keys of io.weight a blockIO section names.
WeightKeys(blockio) ==
    (IF blockio.weight = {} THEN {} ELSE {<<"default">>})
    \cup {DevKey(blockio.weight_device[n]) :
            n \in {n \in 1..Len(blockio.weight_device) : blockio.weight_device[n].weight # {}}}

\* C30: after set_cgroup_blockio every key of io.weight and every sub-key of
\* an entry of io.max that was in the file and that the section does not
\* name is in the file with the value it had.
C30_BlockioFrame ==
    (ctl.op = "blockio" /\ ctl.done) =>
        LET weight_before == read_flat_keyed_file(ctl.old["io.weight"])
            weight_after == read_flat_keyed_file(ctl.files["io.weight"])
            max_before == read_nested_keyed_file(ctl.old["io.max"])
            max_after == read_nested_keyed_file(ctl.files["io.max"])
        IN /\ \A key \in DOMAIN weight_before \ WeightKeys(ctl.cfg) :
                key \in DOMAIN weight_after /\ weight_after[key] = weight_before[key]
           /\ \A key \in DOMAIN max_before :
                /\ key \in DOMAIN max_after
                /\ \A subkey \in SubKeys :
                      Rates(ctl.cfg, subkey, key) = {}
                          => SubValue(max_after, key, subkey) = SubValue(max_before, key, subkey)

----------------------------------------------------------------------------
(* Properties of the repeated mount options, C37 *)

\* The flags each set option sets: the arms of mount.rs:89-125 that are
\* not clear options, and "silent" (mount.rs:120).
SetOptions ==
    [o \in (DOMAIN OrArms \ {"defaults", "dev"}) \cup {"silent"} |->
        IF o \in DOMAIN OrArms THEN OrArms[o] ELSE XorArms[o]]

\* C37: in the result of parse_mount_options the flags of a set option
\* (silent, ro, nosuid, iversion, ...) are set whenever no later option of
\* the list clears them, however often the set option is repeated.
C37_SetOptionsIdempotent ==
    parsed.done =>
        \A k \in 1..Len(options) :
            (/\ options[k] \in DOMAIN SetOptions
             /\ \A j \in (k + 1)..Len(options) :
                    options[j] \in DOMAIN ClearOptions
                        => ClearOptions[options[j]].flag \notin SetOptions[options[k]])
                => SetOptions[options[k]] \subseteq parsed.flags

----------------------------------------------------------------------------
(* Properties of io.weight, C34 *)

\* C34: after set_cgroup_blockio, with or without a global weight, io.weight
\* has every weight_device entry that has a weight under the key major:minor
\* of its device, and `default` with the global weight when there is one.
C34_WeightDevicesWritten ==
    (ctl.op = "blockio" /\ ctl.done) =>
        LET weight_after == read_flat_keyed_file(ctl.files["io.weight"])
            devices == ctl.cfg.weight_device
        IN /\ \A n \in 1..Len(devices) : \A w \in devices[n].weight :
                /\ DevKey(devices[n]) \in DOMAIN weight_after
                /\ weight_after[DevKey(devices[n])] = to_string(w)
           /\ \A w \in ctl.cfg.weight :
                /\ <<"default">> \in DOMAIN weight_after
                /\ weight_after[<<"default">>] = to_string(w)

----------------------------------------------------------------------------
(* Properties of a create whose config does not load, C40 *)

\* C40: a create invocation whose Config::load fails ends at once with the
\* Bundle error; the step makes no state directory, state.json, exec_fifo
\* or cgroup directory and clones no process.
C40_LoadFailureLeavesNothing ==
    [][\A i \in Creators :
        (cpc[i] = "idle" /\ cres'[i] = "Bundle")
            => /\ cpc'[i] = "done"
               /\ UNCHANGED fsVars
               /\ chpc' = chpc
               /\ cgfd' = cgfd]_vars

\* A create has ended with the Bundle error and there is no state
\* directory, no state.json and no child of it.
C40_Witness ==
    \E i \in Creators :
        /\ cpc[i] = "done" /\ cres[i] = "Bundle"
        /\ ~stateDir /\ stateJson = NoFile
        /\ chpc[i] = "none"

----------------------------------------------------------------------------
(* Properties of read_nested_keyed_file, C36 *)

\* The sub-map of a line: its well-formed sub-pairs, those with exactly one
\* `=`, and the last one of a sub-key when it is repeated.
SubMapOf(line) ==
    LET well_formed(pair) == Cardinality({n \in 1..Len(pair) : pair[n] = "="}) = 1
        good == {n \in 1..Len(line.pairs) : well_formed(line.pairs[n])}
        eq(n) == CHOOSE j \in 1..Len(line.pairs[n]) : line.pairs[n][j] = "="
        sub(n) == SubSeq(line.pairs[n], 1, eq(n) - 1)
        val(n) == SubSeq(line.pairs[n], eq(n) + 1, Len(line.pairs[n]))
    IN [sk \in {sub(n) : n \in good} |->
            val(CHOOSE n \in good : sub(n) = sk /\ \A j \in good : sub(j) = sk => j <= n)]

\* C36: read_nested_keyed_file gives the key of every line, and under it the
\* sub-map of the well-formed sub-pairs of the line (of the last line of the
\* key): a sub-pair that has not exactly one `=` is left out without an
\* error, and a line without sub-pairs gives the key with an empty sub-map.
C36_NestedRead ==
    (keyed.kind = "lines" /\ keyed.pc = "done") =>
        LET lines == keyed.data
        IN /\ DOMAIN keyed.out = {lines[n].key : n \in 1..Len(lines)}
           /\ \A n \in 1..Len(lines) :
                (\A j \in (n + 1)..Len(lines) : lines[j].key # lines[n].key)
                    => /\ keyed.out[lines[n].key] = SubMapOf(lines[n])
                       /\ (lines[n].pairs = <<>> => keyed.out[lines[n].key] = EmptyMap)

\* A file of two lines was read: one has a well-formed sub-pair, a pair
\* without `=` and nothing else; the other has no sub-pairs.
C36_Witness ==
    /\ keyed.kind = "lines" /\ keyed.pc = "done"
    /\ keyed.data = <<[key |-> <<"KEY0">>, pairs |-> <<<<"SUB0", "=", "VAL0">>, <<"bad">>>>],
                      [key |-> <<"KEY1">>, pairs |-> <<>>]>>
    /\ keyed.out = (<<"KEY0">> :> (<<"SUB0">> :> <<"VAL0">>)) @@ (<<"KEY1">> :> EmptyMap)

----------------------------------------------------------------------------
(* Properties of create_cgroup, C38 *)

\* C38: create_cgroup on a directory that exists fails with the IO error and
\* leaves the directory and every file in it as they were; when the
\* directory was missing and create_cgroup returns Ok, the directory and its
\* cgroup.procs file are there.
C38_CreateCgroup ==
    (ctl.op = "create" /\ ctl.done) =>
        /\ ctl.old.exists => (ctl.res = "IO" /\ ctl.files = ctl.old)
        /\ (~ctl.old.exists /\ ctl.res = "Ok")
              => (ctl.files.exists /\ "cgroup.procs" \in DOMAIN ctl.files.files)

\* create_cgroup has failed on a directory that had files in it.
C38_Witness ==
    /\ ctl.op = "create" /\ ctl.done
    /\ ctl.old.exists /\ DOMAIN ctl.old.files # {}
    /\ ctl.res = "IO"

----------------------------------------------------------------------------
(* Properties of setup_rootfs, C31 and C39 *)

\* C31: setup_rootfs calls mount only for a root that is a directory: the
\* slave-recursive mount of "/", the private mount of the root and the
\* recursive bind of the root on itself, in this order; when libc::mount
\* fails for one of them the result is the RootFs error and no later call
\* is made.
C31_MountsInOrder ==
    (prep.fn = "rootfs" /\ prep.done # {}) =>
        LET calls == prep.out.calls
            flags == <<{MS_SLAVE, MS_REC}, {MS_PRIVATE}, {MS_BIND, MS_REC}>>
            failed == {k \in 1..3 : prep.inp.rets[k] # 0}
        IN /\ prep.inp.meta # "dir" => (calls = <<>> /\ prep.out.res # "Ok")
           /\ prep.inp.meta = "dir" =>
                /\ \A k \in 1..Len(calls) : calls[k].flags = flags[k]
                /\ Len(calls) >= 1 => calls[1].target = [abs |-> TRUE, comps |-> <<>>]
                /\ Len(calls) = 3 => (calls[3].source = calls[3].target
                                      /\ calls[3].target = calls[2].target)
                /\ IF failed = {}
                   THEN prep.out.res = "Ok" /\ Len(calls) = 3
                   ELSE /\ prep.out.res = "RootFs"
                        /\ Len(calls) = CHOOSE k \in failed : \A j \in failed : k <= j

\* C39: the path setup_rootfs finds to be a directory, the bundle path
\* joined with root.path, is the path it mounts private and binds on
\* itself, for the working directory the process has, when all mounts
\* succeed.
C39_ValidatedIsMounted ==
    (/\ prep.fn = "rootfs" /\ prep.done # {}
     /\ prep.out.res = "Ok" /\ \A k \in 1..3 : prep.inp.rets[k] = 0) =>
        LET at(path) == Push(prep.inp.cwd, path)
            calls == prep.out.calls
        IN /\ at(calls[2].target) = at(prep.out.checked)
           /\ at(calls[3].source) = at(prep.out.checked)
           /\ at(calls[3].target) = at(prep.out.checked)

----------------------------------------------------------------------------
(* Properties of the environment of the container process, C32 *)

\* C32: after clear_env and populate_env the environment has exactly the
\* entries KEY=VALUE of process.env that have one `=`, the last one of a
\* key when it is repeated, and no variable the process had from the
\* runtime.
C32_EnvExactlyConfig ==
    (prep.fn = "env" /\ "populate" \in prep.done) =>
        prep.out = SubMapOf([key |-> <<>>, pairs |-> prep.inp.vars])

----------------------------------------------------------------------------
(* Properties of the namespaces, C35 *)

\* C35: of a namespace list, every entry without a path sets the bit of its
\* type in the clone flags, no bit when the type is unknown, and is not
\* among the namespaces to join; every entry with a path is among the
\* namespaces to join, in the order of the list, and sets no bit.
C35_CloneOrJoin ==
    (prep.fn = "namespaces" /\ prep.done = {"flags", "join"}) =>
        LET bit == [pid |-> CLONE_NEWPID, network |-> CLONE_NEWNET, mount |-> CLONE_NEWNS,
                    ipc |-> CLONE_NEWIPC, uts |-> CLONE_NEWUTS, user |-> CLONE_NEWUSER,
                    cgroup |-> CLONE_NEWCGROUP, time |-> CLONE_NEWTIME]
            list == prep.inp
            cloned == {n \in 1..Len(list) : list[n].path = {}}
            has_path(ns) == ns.path # {}
        IN /\ prep.out.flags = {bit[list[n].typ] : n \in {n \in cloned : list[n].typ \in DOMAIN bit}}
           /\ prep.out.join = SelectSeq(list, has_path)
           /\ \A n \in cloned : \A j \in 1..Len(prep.out.join) : prep.out.join[j] # list[n]

\* A list of a pid namespace without a path and a network namespace with
\* one: the flags are CLONE_NEWPID and the network namespace is to join.
C35_Witness ==
    /\ prep.fn = "namespaces" /\ prep.done = {"flags", "join"}
    /\ prep.inp = <<[typ |-> "pid", path |-> {}], [typ |-> "network", path |-> {"/proc/1/ns/x"}]>>
    /\ prep.out.flags = {CLONE_NEWPID}
    /\ prep.out.join = <<[typ |-> "network", path |-> {"/proc/1/ns/x"}]>>

----------------------------------------------------------------------------
(* Properties of a create whose rlimits are refused, C33 *)

\* C33: once set_rlimits has failed in the child, as it does first of all
\* for a type that is not an RLIMIT_* name, the create does not persist
\* created and does not return Ok: it has ended with an error or is about
\* to, its read of the ready pipe not being suspended.
C33_RlimitFailureFailsCreate ==
    \A i \in Creators :
        SetupFailed(i) =>
            /\ cres[i] # "Ok"
            /\ cpc[i] # "created"
            /\ (cpc[i] = "done" \/ ~ReadBlocks(i))

====
